---- MODULE Spec2Model ----
(***************************************************************************)
(* The Stomach of the tex_engine crate (engine/stomach.rs): the mode       *)
(* derived from the stack of open node lists, command dispatch with mode   *)
(* switching, the assignment entry points with \afterassignment, and the   *)
(* output trigger.                                                         *)
(*                                                                         *)
(* The engine is single threaded: every entry point of the Stomach trait   *)
(* runs to completion, so each entry point is one action.  The methods of  *)
(* the trait are operators from a state record to a state record, which    *)
(* lets one method call another exactly as the code does.  The record      *)
(* carries, besides the data, the control outcome of the call so far:      *)
(*   out  "Ok" | "Err" (a TeXResult error propagated by `?`) | "Panic"     *)
(*        (an unreachable!() was hit),                                     *)
(*   val  the returned value of a bool-returning method,                   *)
(*   ev   the journal of the calls into the Mouth, the State and the       *)
(*        error sink made by the running entry point, in order.            *)
(***************************************************************************)
EXTENDS Integers, Sequences, FiniteSets, TLC

\* ---------------------------------------------------------------- bounds
\* the frames of open_lists, the nodes held by the open lists and the page,
\* and the tokens waiting in the mouth never number more than MaxSize together
MaxSize == 3
\* the page goal an assignment to \pagegoal sets, in box heights
SmallGoal == 2

\* ------------------------------------------------------ program constants
\* ET::Dim::from_sp(i32::MAX), the initial pagegoal
MaxDim == 2147483647
\* the forced-break penalty
ForcedPenalty == -10000
\* the mathcode that makes a character active
ActiveMathCode == 32768

\* ------------------------------------------------------------------ modes
Vertical == "vertical"
InternalVertical == "internal vertical"
Horizontal == "horizontal"
RestrictedHorizontal == "restricted horizontal"
InlineMath == "inline math"
DisplayMath == "display math"

TeXMode ==
    {Vertical, InternalVertical, Horizontal, RestrictedHorizontal, InlineMath, DisplayMath}

is_vertical(m) == m \in {Vertical, InternalVertical}

is_horizontal(m) == m \in {Horizontal, RestrictedHorizontal}

is_math(m) == m \in {InlineMath, DisplayMath}

CommandScope ==
    {"Any", "SwitchesToVertical", "SwitchesToHorizontal", "SwitchesToHorizontalOrMath",
     "MathOnly"}

\* ----------------------------------------------------------------- tokens
\* A token is known by the command it resolves to: the kind of the command
\* (which entry point the main loop dispatches it to), its primitive name and,
\* for an unexpandable command, its scope.
Tok(kind, name, scope) == [kind |-> kind, name |-> name, scope |-> scope]

NoTok == Tok("none", "-", "-")

UnexpandableTokens ==
    { Tok("unexpandable", "relax", "Any"),
      Tok("unexpandable", "vskip", "SwitchesToVertical"),
      Tok("unexpandable", "kern", "SwitchesToHorizontal"),
      Tok("unexpandable", "char", "SwitchesToHorizontalOrMath"),
      Tok("unexpandable", "indent", "SwitchesToHorizontalOrMath"),
      Tok("unexpandable", "noindent", "SwitchesToHorizontalOrMath"),
      Tok("unexpandable", "mathop", "MathOnly") }

\* the assignment entry points of the trait
AssignEntries ==
    {"do_assignment", "assign_font", "assign_int_register", "assign_dim_register",
     "assign_skip_register", "assign_muskip_register", "assign_primitive_int",
     "assign_primitive_dim", "assign_primitive_skip", "assign_primitive_muskip"}

AssignTokens == { Tok("assignment", e, "-") : e \in AssignEntries }

\* ------------------------------------------------------------------ nodes
\* k: the variant, n: its number (a penalty's value, a box's height, a kern's
\* or indent box's width), c: the children of a VCenter nucleus.
Node(k, n) == [k |-> k, n |-> n, c |-> <<>>]

VCenterAtom(children) == [k |-> "MAtomVCenter", n |-> 0, c |-> children]

\* ------------------------------------------------------------ open frames
\* NodeList::{Horizontal, Vertical, Math}: fam is the variant, tp the list
\* type, display the flag of MathNodeListType::Top (FALSE elsewhere), target
\* the box target a box list records ("none" elsewhere).
Frame(fam, tp, display) ==
    [fam |-> fam, tp |-> tp, display |-> display, target |-> "none", children |-> <<>>]

Last(seq) == seq[Len(seq)]

Front(seq) == SubSeq(seq, 1, Len(seq) - 1)

\* -------------------------------------------------------------- variables
VARIABLES
    open_lists,       \* StomachData::open_lists, the top frame last
    page,             \* StomachData::page
    pagetotal,        \* StomachData::pagetotal
    pagegoal,         \* StomachData::pagegoal
    in_output,        \* StomachData::in_output
    lastpenalty,      \* StomachData::lastpenalty
    prevgraf,         \* StomachData::prevgraf
    afterassignment,  \* DefaultStomach::afterassignment (NoTok for None)
    mouth,            \* the tokens put back in front of the input, next token first
    groups,           \* the State's group stack, innermost last
    ret               \* what the last entry point was called with and returned

vars ==
    <<open_lists, page, pagetotal, pagegoal, in_output, lastpenalty,
      prevgraf, afterassignment, mouth, groups, ret>>

\* The state record an entry point starts from.
Cur ==
    [ open_lists |-> open_lists, page |-> page, pagetotal |-> pagetotal,
      pagegoal |-> pagegoal, in_output |-> in_output,
      lastpenalty |-> lastpenalty, prevgraf |-> prevgraf,
      afterassignment |-> afterassignment, mouth |-> mouth, groups |-> groups,
      out |-> "Ok", val |-> FALSE, ev |-> <<>> ]

\* ------------------------------------------------------------------- mode
\* mode_math, had it looked for the Top frame from the base of the stack
mode_math_outermost(ls, i) ==
    LET tops == { j \in 1..i : ls[j].fam = "Math" /\ ls[j].tp = "Top" }
        first == CHOOSE j \in tops : \A k \in tops : j <= k
    IN  IF tops = {} THEN "unreachable"
        ELSE IF ls[first].display THEN DisplayMath ELSE InlineMath

\* StomachData::mode.  "unreachable" stands for the unreachable!() of the
\* math arm, hit when no Top frame lies on the stack.
RECURSIVE mode_math(_, _)
mode_math(ls, i) ==
    IF i = 0 THEN "unreachable"
    ELSE IF ls[i].fam = "Math" /\ ls[i].tp = "Top"
         THEN (IF ls[i].display THEN DisplayMath ELSE InlineMath)
         ELSE mode_math(ls, i - 1)

\* mode, had it not told a paragraph from the other horizontal lists
mode_without_paragraph(ls) ==
    IF ls = <<>> THEN Vertical
    ELSE LET top == Last(ls) IN
         CASE top.fam = "Horizontal" -> RestrictedHorizontal
           [] top.fam = "Vertical" -> InternalVertical
           [] top.fam = "Math" -> mode_math(ls, Len(ls))

mode(ls) ==
    IF ls = <<>> THEN Vertical
    ELSE LET top == Last(ls) IN
         CASE top.fam = "Horizontal" /\ top.tp = "Paragraph" -> Horizontal
           [] top.fam = "Horizontal" /\ top.tp # "Paragraph" -> RestrictedHorizontal
           [] top.fam = "Vertical" -> InternalVertical
           [] top.fam = "Math" -> mode_math(ls, Len(ls))

\* ------------------------------------------------------- journal and bounds
\* A journal entry: a call out of the running entry point (e), the token or
\* node kind it concerns, and the stack depth, page length and in_output
\* flag it sees at that moment.
Ev(e, tok, info, s) ==
    [ e |-> e, tok |-> tok, info |-> info, depth |-> Len(s.open_lists),
      pagelen |-> Len(s.page), in_output |-> s.in_output ]

Log(s, e, tok, info) == [s EXCEPT !.ev = Append(@, Ev(e, tok, info, s))]

Panic(s, what) == [Log(s, "panic", NoTok, what) EXCEPT !.out = "Panic"]

Fail(s, what) == [Log(s, "error", NoTok, what) EXCEPT !.out = "Err"]

\* Option<i32>
None == [some |-> FALSE, v |-> 0]

Some(v) == [some |-> TRUE, v |-> v]

\* What the collaborators of one entry point answer during the call:
\*   recover   whether the error sink recovers a reported error (the call
\*             returns Ok) or the error is propagated,
\*   lines     the items the paragraph splitter returns,
\*   parskip, parindent, everypar   the State's values of these parameters,
\*   routine   what the commands of the \output token list do, in order,
\*   target    the box target in the BoxInfo the `bx` callback returns.
Env(recover, lines, parskip, parindent, everypar) ==
    [ recover |-> recover, lines |-> lines, parskip |-> parskip,
      parindent |-> parindent, everypar |-> everypar, routine |-> <<>>,
      target |-> "none" ]

\* --------------------------------------------------------- mouth and state
\* Mouth::requeue / EngineReferences::requeue: the token is read next.
requeue(s, tok) ==
    [Log(s, "requeue", tok, "-") EXCEPT !.mouth = <<tok>> \o @]

\* State::push(group type)
state_push(s, gt) == [Log(s, "state.push", NoTok, gt) EXCEPT !.groups = Append(@, gt)]

\* State::pop: the innermost group ends (nothing to end at level 0)
state_pop(s) ==
    [Log(s, "state.pop", NoTok, "-") EXCEPT
        !.groups = IF @ = <<>> THEN <<>> ELSE Front(@)]

\* ------------------------------------------------------------ output
RECURSIVE add_node_v(_, _, _)

\* The commands of the output routine, dispatched one after the other while
\* do_output runs: a command that adds a box to the vertical list, or one that
\* adds a forced-break penalty.  (A routine started from inside a routine
\* has no commands of its own.)
RECURSIVE run_routine(_, _, _, _)
run_routine(s, steps, i, env) ==
    IF i > Len(steps) \/ s.out # "Ok" THEN s
    ELSE LET s1 == Log(s, "routine", NoTok, steps[i])
             node == IF steps[i] = "penalty" THEN Node("VPenalty", ForcedPenalty)
                     ELSE Node("VBox", 1)
         IN  run_routine(add_node_v(s1, node, [env EXCEPT !.routine = <<>>]),
                         steps, i + 1, env)

\* methods::do_output: the output routine runs with in_output set, then the
\* page is cleared and in_output reset.
do_output(s, caused_penalty, env) ==
    LET s1 == Log(s, "do_output", NoTok, IF caused_penalty.some THEN "forced" ELSE "full")
        s2 == Log([s1 EXCEPT !.in_output = TRUE], "output_routine", NoTok, "-")
        s3 == run_routine(s2, env.routine, 1, env)
        s4 == [s3 EXCEPT !.page = <<>>, !.pagetotal = 0, !.in_output = FALSE]
    IN  IF s3.out # "Ok" THEN s3 ELSE Log(s4, "do_output returns", NoTok, "-")

\* maybe_do_output, had it not looked at in_output
maybe_do_output_nested(s, penalty, env) ==
    IF /\ s.open_lists = <<>>
       /\ s.page # <<>>
       /\ (s.pagetotal >= s.pagegoal \/ penalty.some)
    THEN do_output(s, penalty, env)
    ELSE s

\* maybe_do_output, had it looked at the page total alone
maybe_do_output_ignores_penalty(s, penalty, env) ==
    IF /\ ~s.in_output
       /\ s.open_lists = <<>>
       /\ s.page # <<>>
       /\ s.pagetotal >= s.pagegoal
    THEN do_output(s, penalty, env)
    ELSE s

\* maybe_do_output, had it not looked at open_lists
maybe_do_output_with_open_lists(s, penalty, env) ==
    IF /\ ~s.in_output
       /\ s.page # <<>>
       /\ (s.pagetotal >= s.pagegoal \/ penalty.some)
    THEN do_output(s, penalty, env)
    ELSE s

\* Stomach::maybe_do_output
maybe_do_output(s, penalty, env) ==
    IF /\ ~s.in_output
       /\ s.open_lists = <<>>
       /\ s.page # <<>>
       /\ (s.pagetotal >= s.pagegoal \/ penalty.some)
    THEN do_output(s, penalty, env)
    ELSE s

\* ------------------------------------------------------------ adding nodes
\* the height plus depth a vertical node adds to pagetotal
vheight(node) == IF node.k \in {"VBox", "VSkip", "VKern"} THEN node.n ELSE 0

AppendTop(ls, node) ==
    [ls EXCEPT ![Len(ls)].children = Append(@, node)]

\* Stomach::add_node_m
add_node_m(s, node) ==
    IF s.open_lists # <<>> /\ Last(s.open_lists).fam = "Math"
    THEN [s EXCEPT !.open_lists = AppendTop(@, node)]
    ELSE Panic(s, "Stomach::add_node_m called outside of math mode")

\* add_node_h, had it pushed onto the top list whatever its family
add_node_h_unchecked(s, node) ==
    LET s1 == IF node.k = "HPenalty" THEN [s EXCEPT !.lastpenalty = node.n] ELSE s
    IN  IF s1.open_lists # <<>>
        THEN [s1 EXCEPT !.open_lists = AppendTop(@, node)]
        ELSE Panic(s1, "Stomach::add_node_h called outside of horizontal mode")

\* Stomach::add_node_h
add_node_h(s, node) ==
    LET s1 == IF node.k = "HPenalty" THEN [s EXCEPT !.lastpenalty = node.n] ELSE s
    IN  IF s1.open_lists # <<>> /\ Last(s1.open_lists).fam = "Horizontal"
        THEN [s1 EXCEPT !.open_lists = AppendTop(@, node)]
        ELSE Panic(s1, "Stomach::add_node_h called outside of horizontal mode")

\* Stomach::add_node_v -> methods::add_node_v: onto the innermost vertical
\* list, or onto the page when no list is open; a node put on the page updates
\* pagetotal and is followed by maybe_do_output, with the penalty when it is a
\* forced break.
add_node_v(s, node, env) ==
    IF s.open_lists # <<>>
    THEN IF Last(s.open_lists).fam = "Vertical"
         THEN [s EXCEPT !.open_lists = AppendTop(@, node)]
         ELSE Panic(s, "add_node_v called outside of vertical mode")
    ELSE LET s1 == [s EXCEPT !.page = Append(@, node),
                             !.pagetotal = @ + vheight(node)]
         IN  IF node.k = "VPenalty" /\ node.n <= ForcedPenalty
             THEN maybe_do_output(s1, Some(node.n), env)
             ELSE maybe_do_output(s1, None, env)

\* ------------------------------------------------------------- paragraphs
\* open_paragraph, had it requeued every triggering token, \indent and
\* \noindent included
open_paragraph_requeues_every_token(s, token, env) ==
    LET s1 == [s EXCEPT !.prevgraf = 0,
                        !.open_lists = Append(@, Frame("Horizontal", "Paragraph", FALSE))]
        indentbox == Node("ParIndent", env.parindent)
        s2 == CASE token.name = "indent" -> add_node_h(requeue(s1, token), indentbox)
                [] token.name = "noindent" -> requeue(s1, token)
                [] OTHER -> add_node_h(requeue(s1, token), indentbox)
    IN  [Log(s2, "push_every", NoTok, "everypar") EXCEPT !.mouth = env.everypar \o @]

\* open_paragraph, had it left prevgraf as it found it
open_paragraph_keeps_prevgraf(s, token, env) ==
    LET s1 == [s EXCEPT !.open_lists = Append(@, Frame("Horizontal", "Paragraph", FALSE))]
        indentbox == Node("ParIndent", env.parindent)
        s2 == CASE token.name = "indent" -> add_node_h(s1, indentbox)
                [] token.name = "noindent" -> s1
                [] OTHER -> add_node_h(requeue(s1, token), indentbox)
    IN  [Log(s2, "push_every", NoTok, "everypar") EXCEPT !.mouth = env.everypar \o @]

\* Stomach::open_paragraph
open_paragraph(s, token, env) ==
    LET s1 == [s EXCEPT !.prevgraf = 0,
                        !.open_lists = Append(@, Frame("Horizontal", "Paragraph", FALSE))]
        indentbox == Node("ParIndent", env.parindent)
        s2 == CASE token.name = "indent" -> add_node_h(s1, indentbox)
                [] token.name = "noindent" -> s1
                [] OTHER -> add_node_h(requeue(s1, token), indentbox)
    IN  [Log(s2, "push_every", NoTok, "everypar") EXCEPT !.mouth = env.everypar \o @]

\* methods::split_paragraph_roughly: the items of the split paragraph, a Line
\* (a box) or an Adjust (a vertical node), in order
split_paragraph_roughly(children, env) == env.lines

ParLineNode(line) == IF line = "Line" THEN Node("VBox", 1) ELSE Node("VAdjust", 0)

\* the loop of split_paragraph over the items, from item i on
RECURSIVE add_lines(_, _, _, _)
add_lines(s, lines, i, env) ==
    IF i > Len(lines) \/ s.out # "Ok" THEN s
    ELSE add_lines(add_node_v(s, ParLineNode(lines[i]), env), lines, i + 1, env)

\* split_paragraph, had it added the \parskip glue after the lines
split_paragraph_skips_last(s, children, env) ==
    IF children = <<>> THEN s
    ELSE LET s1 == add_lines(s, split_paragraph_roughly(children, env), 1, env)
         IN  IF s1.out # "Ok" \/ env.parskip = 0 THEN s1
             ELSE add_node_v(s1, Node("VSkip", env.parskip), env)

\* Stomach::split_paragraph
split_paragraph(s, children, env) ==
    IF children = <<>> THEN s
    ELSE LET s1 == IF env.parskip # 0
                   THEN add_node_v(s, Node("VSkip", env.parskip), env)
                   ELSE s
         IN  IF s1.out # "Ok" THEN s1
             ELSE add_lines(s1, split_paragraph_roughly(children, env), 1, env)

\* close_paragraph, had it added the \parskip glue before looking whether
\* the paragraph is empty
close_paragraph_skips_first(s, env) ==
    IF s.open_lists = <<>>
    THEN Panic(s, "Stomach::close_paragraph called outside of horizontal mode")
    ELSE LET top == Last(s.open_lists)
             s0 == [s EXCEPT !.open_lists = Front(@)]
             s1 == IF env.parskip # 0
                   THEN add_node_v(s0, Node("VSkip", env.parskip), env)
                   ELSE s0
         IN  IF top.fam = "Horizontal" /\ top.tp = "Paragraph"
             THEN IF top.children = <<>>
                  THEN Log(Log(Log(s1, "state.take_parshape", NoTok, "-"),
                               "state.set", NoTok, "hangafter"),
                           "state.set", NoTok, "hangindent")
                  ELSE add_lines(s1, split_paragraph_roughly(top.children, env), 1, env)
             ELSE Panic(s0, "Stomach::close_paragraph called outside of horizontal mode")

\* Stomach::close_paragraph
close_paragraph(s, env) ==
    IF s.open_lists = <<>>
    THEN Panic(s, "Stomach::close_paragraph called outside of horizontal mode")
    ELSE LET top == Last(s.open_lists)
             s1 == [s EXCEPT !.open_lists = Front(@)]
         IN  IF top.fam = "Horizontal" /\ top.tp = "Paragraph"
             THEN IF top.children = <<>>
                  THEN Log(Log(Log(s1, "state.take_parshape", NoTok, "-"),
                               "state.set", NoTok, "hangafter"),
                           "state.set", NoTok, "hangindent")
                  ELSE split_paragraph(s1, top.children, env)
             ELSE Panic(s1, "Stomach::close_paragraph called outside of horizontal mode")

\* ---------------------------------------------------------- mode switching
\* TeXError::not_allowed_in_mode(.., name, mode)?: reported to the error sink,
\* which recovers or not
not_allowed_in_mode(s, token, m, env) ==
    LET s1 == Log(s, "not_allowed_in_mode", token, m)
    IN  IF env.recover THEN s1 ELSE [s1 EXCEPT !.out = "Err"]

\* maybe_switch_mode, had it closed the paragraph before requeueing the token
maybe_switch_mode_closes_first(s, scope, token, env) ==
    LET m == mode(s.open_lists) IN
    CASE m = "unreachable" -> Panic(s, "unreachable")
      [] m # "unreachable" /\ scope = "Any" -> [s EXCEPT !.val = TRUE]
      [] /\ scope \in {"SwitchesToHorizontal", "SwitchesToHorizontalOrMath"}
         /\ m \in {Horizontal, RestrictedHorizontal} -> [s EXCEPT !.val = TRUE]
      [] scope = "SwitchesToVertical" /\ m \in {Vertical, InternalVertical} ->
            [s EXCEPT !.val = TRUE]
      [] scope = "SwitchesToVertical" /\ m = Horizontal ->
            [requeue(close_paragraph(s, env), token) EXCEPT !.val = FALSE]
      [] /\ scope \in {"MathOnly", "SwitchesToHorizontalOrMath"}
         /\ m \in {InlineMath, DisplayMath} -> [s EXCEPT !.val = TRUE]
      [] /\ scope \in {"SwitchesToHorizontal", "SwitchesToHorizontalOrMath"}
         /\ m \in {Vertical, InternalVertical} ->
            [open_paragraph(s, token, env) EXCEPT !.val = FALSE]
      [] OTHER -> [not_allowed_in_mode(s, token, m, env) EXCEPT !.val = FALSE]

\* maybe_switch_mode, had SwitchesToHorizontal been let through in math mode
\* like SwitchesToHorizontalOrMath
maybe_switch_mode_horizontal_in_math(s, scope, token, env) ==
    LET m == mode(s.open_lists) IN
    CASE m = "unreachable" -> Panic(s, "unreachable")
      [] m # "unreachable" /\ scope = "Any" -> [s EXCEPT !.val = TRUE]
      [] /\ scope \in {"SwitchesToHorizontal", "SwitchesToHorizontalOrMath"}
         /\ m \in {Horizontal, RestrictedHorizontal} -> [s EXCEPT !.val = TRUE]
      [] scope = "SwitchesToVertical" /\ m \in {Vertical, InternalVertical} ->
            [s EXCEPT !.val = TRUE]
      [] scope = "SwitchesToVertical" /\ m = Horizontal ->
            [close_paragraph(requeue(s, token), env) EXCEPT !.val = FALSE]
      [] /\ scope \in {"MathOnly", "SwitchesToHorizontal", "SwitchesToHorizontalOrMath"}
         /\ m \in {InlineMath, DisplayMath} -> [s EXCEPT !.val = TRUE]
      [] /\ scope \in {"SwitchesToHorizontal", "SwitchesToHorizontalOrMath"}
         /\ m \in {Vertical, InternalVertical} ->
            [open_paragraph(s, token, env) EXCEPT !.val = FALSE]
      [] OTHER -> [not_allowed_in_mode(s, token, m, env) EXCEPT !.val = FALSE]

\* maybe_switch_mode, had it put a rejected token back for another try
maybe_switch_mode_requeues_rejected(s, scope, token, env) ==
    LET m == mode(s.open_lists) IN
    CASE m = "unreachable" -> Panic(s, "unreachable")
      [] m # "unreachable" /\ scope = "Any" -> [s EXCEPT !.val = TRUE]
      [] /\ scope \in {"SwitchesToHorizontal", "SwitchesToHorizontalOrMath"}
         /\ m \in {Horizontal, RestrictedHorizontal} -> [s EXCEPT !.val = TRUE]
      [] scope = "SwitchesToVertical" /\ m \in {Vertical, InternalVertical} ->
            [s EXCEPT !.val = TRUE]
      [] scope = "SwitchesToVertical" /\ m = Horizontal ->
            [close_paragraph(requeue(s, token), env) EXCEPT !.val = FALSE]
      [] /\ scope \in {"MathOnly", "SwitchesToHorizontalOrMath"}
         /\ m \in {InlineMath, DisplayMath} -> [s EXCEPT !.val = TRUE]
      [] /\ scope \in {"SwitchesToHorizontal", "SwitchesToHorizontalOrMath"}
         /\ m \in {Vertical, InternalVertical} ->
            [open_paragraph(s, token, env) EXCEPT !.val = FALSE]
      [] OTHER -> [not_allowed_in_mode(requeue(s, token), token, m, env) EXCEPT !.val = FALSE]

\* maybe_switch_mode, had it opened a paragraph in restricted horizontal mode
\* (inside an \hbox) as it does in vertical mode
maybe_switch_mode_opens_paragraph_in_hbox(s, scope, token, env) ==
    LET m == mode(s.open_lists) IN
    CASE m = "unreachable" -> Panic(s, "unreachable")
      [] m # "unreachable" /\ scope = "Any" -> [s EXCEPT !.val = TRUE]
      [] /\ scope \in {"SwitchesToHorizontal", "SwitchesToHorizontalOrMath"}
         /\ m = Horizontal -> [s EXCEPT !.val = TRUE]
      [] scope = "SwitchesToVertical" /\ m \in {Vertical, InternalVertical} ->
            [s EXCEPT !.val = TRUE]
      [] scope = "SwitchesToVertical" /\ m = Horizontal ->
            [close_paragraph(requeue(s, token), env) EXCEPT !.val = FALSE]
      [] /\ scope \in {"MathOnly", "SwitchesToHorizontalOrMath"}
         /\ m \in {InlineMath, DisplayMath} -> [s EXCEPT !.val = TRUE]
      [] /\ scope \in {"SwitchesToHorizontal", "SwitchesToHorizontalOrMath"}
         /\ m \in {Vertical, InternalVertical, RestrictedHorizontal} ->
            [open_paragraph(s, token, env) EXCEPT !.val = FALSE]
      [] OTHER -> [not_allowed_in_mode(s, token, m, env) EXCEPT !.val = FALSE]

\* Stomach::maybe_switch_mode; val is the returned bool
maybe_switch_mode(s, scope, token, env) ==
    LET m == mode(s.open_lists) IN
    CASE m = "unreachable" -> Panic(s, "unreachable")
      [] m # "unreachable" /\ scope = "Any" -> [s EXCEPT !.val = TRUE]
      [] /\ scope \in {"SwitchesToHorizontal", "SwitchesToHorizontalOrMath"}
         /\ m \in {Horizontal, RestrictedHorizontal} -> [s EXCEPT !.val = TRUE]
      [] scope = "SwitchesToVertical" /\ m \in {Vertical, InternalVertical} ->
            [s EXCEPT !.val = TRUE]
      [] scope = "SwitchesToVertical" /\ m = Horizontal ->
            [close_paragraph(requeue(s, token), env) EXCEPT !.val = FALSE]
      [] /\ scope \in {"MathOnly", "SwitchesToHorizontalOrMath"}
         /\ m \in {InlineMath, DisplayMath} -> [s EXCEPT !.val = TRUE]
      [] /\ scope \in {"SwitchesToHorizontal", "SwitchesToHorizontalOrMath"}
         /\ m \in {Vertical, InternalVertical} ->
            [open_paragraph(s, token, env) EXCEPT !.val = FALSE]
      [] OTHER -> [not_allowed_in_mode(s, token, m, env) EXCEPT !.val = FALSE]

\* ------------------------------------------------------------- dispatch
\* The `apply` callback of an unexpandable command, by what it does: nothing,
\* fail, or add a node (a box or a kern) to the current list through the
\* add_node_* of the current mode.
apply(s, token, body, env) ==
    LET m == mode(s.open_lists)
        s1 == Log(s, "apply", token, body)
    IN  CASE body = "nop" -> s1
          [] body = "err" -> Fail(s1, "apply")
          [] body = "node" /\ is_vertical(m) -> add_node_v(s1, Node("VBox", 1), env)
          [] body = "node" /\ is_horizontal(m) -> add_node_h(s1, Node("HKern", 1))
          [] body = "node" /\ is_math(m) -> add_node_m(s1, Node("MKern", 1))

\* what the `apply` of each command does when it does not fail
BodyOf(token) == IF token.name \in {"relax", "noindent"} THEN "nop" ELSE "node"

\* do_unexpandable, had it left the body to the re-dispatch in every case: the
\* body is not run when maybe_switch_mode proceeds either
do_unexpandable_never_applies(s, scope, token, body, env) ==
    maybe_switch_mode(s, scope, token, env)

\* Stomach::do_unexpandable
do_unexpandable(s, scope, token, body, env) ==
    LET r == maybe_switch_mode(s, scope, token, env)
    IN  IF r.out # "Ok" THEN r
        ELSE IF r.val THEN apply(r, token, body, env)
        ELSE r

\* ------------------------------------------------------------ assignments
\* methods::insert_afterassignment: the queued token, if any, goes to the
\* front of the mouth and the slot is cleared
insert_afterassignment(s) ==
    IF s.afterassignment = NoTok THEN s
    ELSE [requeue(Log(s, "insert_afterassignment", s.afterassignment, "-"),
                  s.afterassignment)
            EXCEPT !.afterassignment = NoTok]

\* Stomach::do_assignment; parse is what the `assign` callback does: fail,
\* write to the State, or write StomachData::pagegoal or StomachData::prevgraf
do_assignment(s, parse) ==
    CASE parse = "err" -> Fail(s, "assign")
      [] parse = "ok" -> insert_afterassignment(Log(s, "state.set", NoTok, "assign"))
      [] parse = "pagegoal" ->
            insert_afterassignment(
                [Log(s, "set", NoTok, "pagegoal") EXCEPT !.pagegoal = SmallGoal])
      [] parse = "prevgraf" ->
            insert_afterassignment(
                [Log(s, "set", NoTok, "prevgraf") EXCEPT !.prevgraf = 1])

\* Stomach::assign_font
assign_font(s, parse) ==
    insert_afterassignment(Log(s, "state.set", NoTok, "current_font"))

\* assign_int_register, had it left the \afterassignment token alone
assign_int_register_without_insert(s, parse) ==
    IF parse = "err" THEN Fail(s, "read_int")
    ELSE Log(s, "state.set", NoTok, "int_register")

\* Stomach::assign_int_register; parse is what read_int returns
assign_int_register(s, parse) ==
    IF parse = "err" THEN Fail(s, "read_int")
    ELSE insert_afterassignment(Log(s, "state.set", NoTok, "int_register"))

\* Stomach::assign_dim_register
assign_dim_register(s, parse) ==
    IF parse = "err" THEN Fail(s, "read_dim")
    ELSE insert_afterassignment(Log(s, "state.set", NoTok, "dim_register"))

\* Stomach::assign_skip_register
assign_skip_register(s, parse) ==
    IF parse = "err" THEN Fail(s, "read_skip")
    ELSE insert_afterassignment(Log(s, "state.set", NoTok, "skip_register"))

\* Stomach::assign_muskip_register
assign_muskip_register(s, parse) ==
    IF parse = "err" THEN Fail(s, "read_muskip")
    ELSE insert_afterassignment(Log(s, "state.set", NoTok, "muskip_register"))

\* assign_primitive_int, had it inserted the \afterassignment token before
\* reading the value
assign_primitive_int_inserts_first(s, parse) ==
    LET s1 == insert_afterassignment(s)
    IN  IF parse = "err" THEN Fail(s1, "read_int")
        ELSE Log(s1, "state.set", NoTok, "primitive_int")

\* Stomach::assign_primitive_int
assign_primitive_int(s, parse) ==
    IF parse = "err" THEN Fail(s, "read_int")
    ELSE insert_afterassignment(Log(s, "state.set", NoTok, "primitive_int"))

\* Stomach::assign_primitive_dim
assign_primitive_dim(s, parse) ==
    IF parse = "err" THEN Fail(s, "read_dim")
    ELSE insert_afterassignment(Log(s, "state.set", NoTok, "primitive_dim"))

\* Stomach::assign_primitive_skip
assign_primitive_skip(s, parse) ==
    IF parse = "err" THEN Fail(s, "read_skip")
    ELSE insert_afterassignment(Log(s, "state.set", NoTok, "primitive_skip"))

\* Stomach::assign_primitive_muskip
assign_primitive_muskip(s, parse) ==
    IF parse = "err" THEN Fail(s, "read_muskip")
    ELSE insert_afterassignment(Log(s, "state.set", NoTok, "primitive_muskip"))

\* the entry point an assignment token is dispatched to
assign_entry(s, entry, parse) ==
    CASE entry = "do_assignment" -> do_assignment(s, parse)
      [] entry = "assign_font" -> assign_font(s, parse)
      [] entry = "assign_int_register" -> assign_int_register(s, parse)
      [] entry = "assign_dim_register" -> assign_dim_register(s, parse)
      [] entry = "assign_skip_register" -> assign_skip_register(s, parse)
      [] entry = "assign_muskip_register" -> assign_muskip_register(s, parse)
      [] entry = "assign_primitive_int" -> assign_primitive_int(s, parse)
      [] entry = "assign_primitive_dim" -> assign_primitive_dim(s, parse)
      [] entry = "assign_primitive_skip" -> assign_primitive_skip(s, parse)
      [] entry = "assign_primitive_muskip" -> assign_primitive_muskip(s, parse)

\* --------------------------------------------------------- whatsits, boxes
\* do_whatsit, had it taken the math modes for horizontal ones
do_whatsit_horizontal_in_math(s, read, env) ==
    CASE read = "err" -> Fail(s, "read")
      [] read = "none" -> s
      [] read = "some" ->
            LET m == mode(s.open_lists) IN
            CASE m = "unreachable" -> Panic(s, "unreachable")
              [] is_vertical(m) -> add_node_v(s, Node("VWhatsit", 0), env)
              [] is_horizontal(m) \/ is_math(m) -> add_node_h(s, Node("HWhatsit", 0))

\* Stomach::do_whatsit; read is what the `read` callback returns
do_whatsit(s, read, env) ==
    CASE read = "err" -> Fail(s, "read")
      [] read = "none" -> s
      [] read = "some" ->
            LET m == mode(s.open_lists) IN
            CASE m = "unreachable" -> Panic(s, "unreachable")
              [] is_vertical(m) -> add_node_v(s, Node("VWhatsit", 0), env)
              [] is_horizontal(m) -> add_node_h(s, Node("HWhatsit", 0))
              [] is_math(m) -> add_node_m(s, Node("MWhatsit", 0))

\* methods::add_box: the finished box goes to its box target; with
\* BoxTarget::none() it is appended to the current list through the add_node_*
\* of the current mode, with the target of a \setbox it is stored in the box
\* register
add_box(s, target, env) ==
    LET m == mode(s.open_lists)
        s1 == Log(s, "add_box", NoTok, target)
    IN  CASE target # "none" -> Log(s1, "state.set", NoTok, "box_register")
          [] target = "none" /\ m = "unreachable" -> Panic(s1, "unreachable")
          [] target = "none" /\ is_vertical(m) -> add_node_v(s1, Node("VBox", 1), env)
          [] target = "none" /\ is_horizontal(m) -> add_node_h(s1, Node("HBox", 1))
          [] target = "none" /\ is_math(m) -> add_node_m(s1, Node("MBox", 1))

\* BoxInfo::open_list: the frame of the box's inner list, which records the
\* box target
open_list(bt, target) == [Frame(bt, "Box", FALSE) EXCEPT !.target = target]

\* do_box, had it put the new list in the place of the innermost open list
do_box_replaces_top(s, bx, env) ==
    CASE bx = "err" -> Fail(s, "bx")
      [] bx = "box" -> add_box(s, "none", env)
      [] bx = "none" -> s
      [] bx \in {"Horizontal", "Vertical"} ->
            [state_push(s, bx) EXCEPT
                !.open_lists = IF @ = <<>> THEN <<open_list(bx, env.target)>>
                               ELSE Append(Front(@), open_list(bx, env.target))]

\* do_box, had it treated a finished box as an assignment
do_box_inserts(s, bx, env) ==
    CASE bx = "err" -> Fail(s, "bx")
      [] bx = "box" -> insert_afterassignment(add_box(s, "none", env))
      [] bx = "none" -> s
      [] bx \in {"Horizontal", "Vertical"} ->
            [state_push(s, bx) EXCEPT
                !.open_lists = Append(@, open_list(bx, env.target))]

\* Stomach::do_box; bx is what the `bx` callback returns: a finished box, no
\* box, a BoxInfo (the callback has opened the box's group), or an error
do_box(s, bx, env) ==
    CASE bx = "err" -> Fail(s, "bx")
      [] bx = "box" -> add_box(s, "none", env)
      [] bx = "none" -> s
      [] bx \in {"Horizontal", "Vertical"} ->
            [state_push(s, bx) EXCEPT
                !.open_lists = Append(@, open_list(bx, env.target))]

\* Stomach::close_box -> methods::close_box: the innermost frame is popped;
\* a box list of the family bt becomes a finished box: its group is popped and
\* the box handed to the box target the frame recorded; any other frame is an
\* internal error
close_box(s, bt, env) ==
    IF s.open_lists = <<>> THEN Panic(s, "close_box")
    ELSE LET top == Last(s.open_lists)
             s1 == [s EXCEPT !.open_lists = Front(@)]
         IN  IF top.fam = bt /\ top.tp = "Box"
             THEN add_box(state_pop(s1), top.target, env)
             ELSE Panic(s1, "close_box")

\* the tokens read_box tells apart: a space, the character '=' of category
\* Other, a box primitive, and any other token
SpaceTok == Tok("space", " ", "-")

EqTok == Tok("other", "=", "-")

BoxTok == Tok("box", "hbox", "-")

\* TeXError::general_error(msg)?: reported to the error sink; the call yields
\* <<state, what bx is to return>>
general_error(s, msg, env) ==
    LET s1 == Log(s, "general_error", NoTok, msg)
    IN  IF env.recover THEN <<s1, "none">> ELSE <<[s1 EXCEPT !.out = "Err"], "err">>

\* the loop of read_box, had it skipped every '=' it meets
RECURSIVE read_box_loop_skips_every_eq(_, _, _, _)
read_box_loop_skips_every_eq(s, read_eq, b, env) ==
    IF s.mouth = <<>> THEN general_error(s, "A <box> was supposed to be here", env)
    ELSE LET token == Head(s.mouth)
             s1 == [s EXCEPT !.mouth = Tail(@)]
         IN  CASE token = EqTok -> read_box_loop_skips_every_eq(s1, TRUE, b, env)
               [] token # EqTok /\ token.kind = "space" ->
                        read_box_loop_skips_every_eq(s1, read_eq, b, env)
               [] token # EqTok /\ token.kind = "box" -> <<Log(s1, "b", token, b), b>>
               [] OTHER -> general_error(s1, "A <box> was supposed to be here", env)

\* the loop of EngineReferences::read_box over the tokens of the input, the
\* next token first; b is what the box primitive returns when called.  The
\* call yields <<state, what read_box returns>>.
RECURSIVE read_box_loop(_, _, _, _)
read_box_loop(s, read_eq, b, env) ==
    IF s.mouth = <<>> THEN general_error(s, "A <box> was supposed to be here", env)
    ELSE LET token == Head(s.mouth)
             s1 == [s EXCEPT !.mouth = Tail(@)]
         IN  CASE token = EqTok /\ ~read_eq -> read_box_loop(s1, TRUE, b, env)
               [] ~(token = EqTok /\ ~read_eq) /\ token.kind = "space" ->
                        read_box_loop(s1, read_eq, b, env)
               [] ~(token = EqTok /\ ~read_eq) /\ token.kind = "box" ->
                        <<Log(s1, "b", token, b), b>>
               [] OTHER -> general_error(s1, "A <box> was supposed to be here", env)

\* EngineReferences::read_box
read_box(s, skip_eq, b, env) == read_box_loop(s, ~skip_eq, b, env)

\* ----------------------------------------------------------------- math
MathAtom(kernel) == Node("MAtom", kernel)

\* Stomach::do_char_in_math
do_char_in_math(s) == add_node_m(s, MathAtom(0))

\* do_mathchar, had it looked at the code alone
do_mathchar_requeues_any_token(s, code, token) ==
    IF code = ActiveMathCode
    THEN requeue(s, Tok("active", token.name, "-"))
    ELSE add_node_m(s, MathAtom(code))

\* Stomach::do_mathchar; token is the character token, or NoTok for None
do_mathchar(s, code, token) ==
    IF token.kind = "character" /\ code = ActiveMathCode
    THEN requeue(s, Tok("active", token.name, "-"))
    ELSE add_node_m(s, MathAtom(code))

\* read_char_or_math_group, had it opened the sub-list without a group
read_char_or_math_group_without_group(s, next) ==
    CASE next = "begingroup" ->
            [s EXCEPT !.open_lists = Append(@, Frame("Math", "Target", FALSE))]
      [] next = "char" -> Log(s, "f", NoTok, "MathChar")
      [] OTHER -> Fail(s, "Begingroup or math character expected")

\* EngineReferences::read_char_or_math_group; next is the token the loop
\* stops at: a begin-group, a math character, or anything else
read_char_or_math_group(s, next) ==
    CASE next = "begingroup" ->
            [state_push(s, "Math") EXCEPT
                !.open_lists = Append(@, Frame("Math", "Target", FALSE))]
      [] next = "char" -> Log(s, "f", NoTok, "MathChar")
      [] OTHER -> Fail(s, "Begingroup or math character expected")

\* ------------------------------------------------------------ alignments
\* Stomach::open_align
open_align(s, between) ==
    [state_push(s, "Align") EXCEPT
        !.open_lists =
            Append(@, IF between = "Vertical"
                      THEN Frame("Vertical", "HAlign", FALSE)
                      ELSE Frame("Horizontal", "VAlign", FALSE))]

\* the loops of close_align over the children, from child i on
RECURSIVE add_nodes_v(_, _, _, _)
add_nodes_v(s, children, i, env) ==
    IF i > Len(children) \/ s.out # "Ok" THEN s
    ELSE add_nodes_v(add_node_v(s, children[i], env), children, i + 1, env)

RECURSIVE add_nodes_h(_, _, _)
add_nodes_h(s, children, i) ==
    IF i > Len(children) \/ s.out # "Ok" THEN s
    ELSE add_nodes_h(add_node_h(s, children[i]), children, i + 1)

\* close_align, had it popped the group after reparenting the children
close_align_pops_last(s, env) ==
    IF s.open_lists = <<>>
    THEN Panic(s, "Stomach::close_align called outside of an align")
    ELSE LET top == Last(s.open_lists)
             s1 == [s EXCEPT !.open_lists = Front(@)]
         IN  CASE top.fam = "Vertical" /\ top.tp = "HAlign" ->
                    IF s1.open_lists # <<>> /\ Last(s1.open_lists).fam = "Math"
                    THEN state_pop(add_node_m(s1, VCenterAtom(top.children)))
                    ELSE state_pop(add_nodes_v(s1, top.children, 1, env))
               [] top.fam = "Horizontal" /\ top.tp = "VAlign" ->
                    state_pop(add_nodes_h(s1, top.children, 1))
               [] OTHER -> Panic(s1, "Stomach::close_align called outside of an align")

\* close_align, had it looked at the family of the top frame alone
close_align_of_any_list(s, env) ==
    IF s.open_lists = <<>>
    THEN Panic(s, "Stomach::close_align called outside of an align")
    ELSE LET top == Last(s.open_lists)
             s1 == [s EXCEPT !.open_lists = Front(@)]
         IN  CASE top.fam = "Vertical" ->
                    LET s2 == state_pop(s1) IN
                    IF s2.open_lists # <<>> /\ Last(s2.open_lists).fam = "Math"
                    THEN add_node_m(s2, VCenterAtom(top.children))
                    ELSE add_nodes_v(s2, top.children, 1, env)
               [] top.fam = "Horizontal" ->
                    add_nodes_h(state_pop(s1), top.children, 1)
               [] OTHER -> Panic(s1, "Stomach::close_align called outside of an align")

\* Stomach::close_align
close_align(s, env) ==
    IF s.open_lists = <<>>
    THEN Panic(s, "Stomach::close_align called outside of an align")
    ELSE LET top == Last(s.open_lists)
             s1 == [s EXCEPT !.open_lists = Front(@)]
         IN  CASE top.fam = "Vertical" /\ top.tp = "HAlign" ->
                    LET s2 == state_pop(s1) IN
                    IF s2.open_lists # <<>> /\ Last(s2.open_lists).fam = "Math"
                    THEN add_node_m(s2, VCenterAtom(top.children))
                    ELSE add_nodes_v(s2, top.children, 1, env)
               [] top.fam = "Horizontal" /\ top.tp = "VAlign" ->
                    add_nodes_h(state_pop(s1), top.children, 1)
               [] OTHER -> Panic(s1, "Stomach::close_align called outside of an align")

\* ------------------------------------------------------------------ flush
RECURSIVE pop_all(_)
pop_all(s) == IF s.groups = <<>> THEN s ELSE pop_all(state_pop(s))

\* flush, had it cleared the page before adding the forced-break penalty
flush_clears_first(s, env) ==
    LET open_groups == s.open_lists
        s1 == [s EXCEPT !.open_lists = <<>>]
        s2 == IF open_groups # <<>>
              THEN pop_all(Log(s1, "message", NoTok, "\\end occurred inside a group"))
              ELSE s1
    IN  add_node_v([s2 EXCEPT !.page = <<>>], Node("VPenalty", ForcedPenalty), env)

\* Stomach::flush
flush(s, env) ==
    LET open_groups == s.open_lists
        s1 == [s EXCEPT !.open_lists = <<>>]
        s2 == IF open_groups # <<>>
              THEN pop_all(Log(s1, "message", NoTok, "\\end occurred inside a group"))
              ELSE s1
        s3 == add_node_v(s2, Node("VPenalty", ForcedPenalty), env)
    IN  IF s3.out # "Ok" THEN s3 ELSE [s3 EXCEPT !.page = <<>>]

\* ------------------------------------------------------------ the machine
RECURSIVE children_in(_, _)
children_in(ls, i) == IF i = 0 THEN 0 ELSE Len(ls[i].children) + children_in(ls, i - 1)

\* the final state of an entry point lies within the bounds
Within(s) ==
    Len(s.open_lists) + children_in(s.open_lists, Len(s.open_lists)) + Len(s.page)
        + Len(s.mouth) <= MaxSize

\* the calls ret keeps track of
Observed ==
    {"requeue", "push_every", "apply", "not_allowed_in_mode", "insert_afterassignment",
     "add_box", "do_output", "routine", "general_error"}

\* the names of the observed calls in a journal
Calls(ev) == { ev[i].e : i \in DOMAIN ev } \cap Observed

\* the entry point `op` ends in s: the data is s's, and ret keeps the entry
\* point, its outcome, its returned bool and the calls it made
Set(s, op) ==
    /\ Within(s)
    /\ open_lists' = s.open_lists
    /\ page' = s.page
    /\ pagetotal' = s.pagetotal
    /\ pagegoal' = s.pagegoal
    /\ in_output' = s.in_output
    /\ lastpenalty' = s.lastpenalty
    /\ prevgraf' = s.prevgraf
    /\ afterassignment' = s.afterassignment
    /\ mouth' = s.mouth
    /\ groups' = s.groups
    /\ ret' = [op |-> op, out |-> s.out, val |-> s.val, calls |-> Calls(s.ev)]

\* the engine runs: the last entry point returned Ok (an Err propagates out of
\* the main loop and an unreachable!() panics, either ends the run) and the
\* document has not ended
Running == ret.out = "Ok" /\ ret.op # "flush"

\* The main loop reads the next token: the first token waiting in the mouth,
\* or, when none waits, any token of the input file.
NextTokens(input) == IF mouth # <<>> THEN {Head(mouth)} \cap input ELSE input

\* the state the dispatched entry point starts from: the token is read
Taken == [Cur EXCEPT !.mouth = IF @ # <<>> THEN Tail(@) ELSE @]

\* the token \afterassignment is given
AfterTokens == { Tok("assignment", "assign_int_register", "-") }

\* the values of \everypar
EveryparChoices == { <<>>, <<Tok("unexpandable", "vskip", "SwitchesToVertical")>> }

\* the results of the paragraph splitter
LineChoices == { <<"Line">>, <<"Line", "Line">>, <<"Adjust", "Line">> }

\* the values of \parskip and \parindent
ParskipChoices == {0, 1}

ParindentChoices == {20}

\* The collaborators' answers, each varied only where the entry point asks for
\* it: the error sink when an error may be reported, the splitter and \parskip
\* when a paragraph may close, \everypar when one may open.
Envs(may_fail, may_close, may_open) ==
    { Env(r, ln, ps, pi, ep) :
        r \in (IF may_fail THEN BOOLEAN ELSE {TRUE}),
        ln \in (IF may_close THEN LineChoices ELSE {<<"Line">>}),
        ps \in (IF may_close THEN ParskipChoices ELSE {0}),
        pi \in ParindentChoices,
        ep \in (IF may_open THEN EveryparChoices ELSE {<<>>}) }

NoEnv == Env(TRUE, <<"Line">>, 0, 20, <<>>)

\* what the \output token list does: nothing that reaches the page builder, or
\* it puts a box back on the vertical list and ends with a forced break
RoutineChoices == { <<>>, <<"box", "penalty">> }

\* the answers envs, with each output routine
OutputEnvs(envs) ==
    { [env EXCEPT !.routine = rt] : env \in envs, rt \in RoutineChoices }

Init ==
    /\ open_lists = <<>>
    /\ page = <<>>
    /\ pagetotal = 0
    /\ pagegoal = MaxDim
    /\ in_output = FALSE
    /\ lastpenalty = 0
    /\ prevgraf = 0
    /\ afterassignment = NoTok
    /\ mouth = <<>>
    /\ groups = <<>>
    /\ ret = [op |-> "new", out |-> "Ok", val |-> FALSE, calls |-> {}]

\* the inputs of a dispatch of an unexpandable command: the token read, what
\* its `apply` does (bodies: may it fail) and the collaborators' answers
UnexpandableInputs(bodies) ==
    LET m == mode(open_lists) IN
    UNION { { <<tok, body, env>> :
                body \in {BodyOf(tok)} \cup bodies,
                env \in OutputEnvs(
                            Envs(tok.scope # "Any",
                                 tok.scope = "SwitchesToVertical" /\ m = Horizontal,
                                 tok.scope \in {"SwitchesToHorizontal",
                                                "SwitchesToHorizontalOrMath"}
                                    /\ is_vertical(m))) } :
            tok \in NextTokens(UnexpandableTokens) }

\* an unexpandable command is dispatched
DoUnexpandable ==
    /\ Running
    /\ \E in \in UnexpandableInputs({}) :
         Set(do_unexpandable(Taken, in[1].scope, in[1], in[2], in[3]), "do_unexpandable")

\* the inputs of a dispatch of an assignment: the token read (its name is the
\* entry point) and whether the value parse or the `assign` callback fails
\* (assign_font is handed its font, it parses nothing)
AssignInputs ==
    { <<tok, parse>> \in NextTokens(AssignTokens) \X {"ok", "err"} :
        parse = "err" => tok.name # "assign_font" }

\* an assignment is dispatched to its entry point
DoAssignment ==
    /\ Running
    /\ \E in \in AssignInputs :
         Set(assign_entry(Taken, in[1].name, in[2]), "assignment")

\* an assignment to \pagegoal is dispatched: its `assign` callback writes
\* StomachData::pagegoal
AssignPagegoal ==
    /\ Running
    /\ \E tok \in NextTokens({Tok("assignment", "do_assignment", "-")}) :
         Set(do_assignment(Taken, "pagegoal"), "assignment")

\* an assignment to \prevgraf is dispatched: its `assign` callback writes
\* StomachData::prevgraf
AssignPrevgraf ==
    /\ Running
    /\ \E tok \in NextTokens({Tok("assignment", "do_assignment", "-")}) :
         Set(do_assignment(Taken, "prevgraf"), "assignment")

\* \afterassignment stores the token that follows it in the slot
SetAfterassignment ==
    /\ Running
    /\ mouth = <<>>
    /\ \E tok \in AfterTokens :
         Set([Cur EXCEPT !.afterassignment = tok], "afterassignment")

\* what the `read` callback returns when a whatsit is dispatched: a whatsit
\* (with None or an error do_whatsit changes nothing)
WhatsitInputs == {"some"}

\* a whatsit command is dispatched
DoWhatsit ==
    /\ Running
    /\ mouth = <<>>
    /\ \E read \in WhatsitInputs :
         Set(do_whatsit(Cur, read, NoEnv), "do_whatsit")

\* what the `bx` callback returns when a box command is dispatched: a finished
\* box or the BoxInfo of a box to open (with None or an error do_box changes
\* nothing)
BoxInputs == {"box", "Horizontal", "Vertical"}

\* a box command is dispatched
DoBox ==
    /\ Running
    /\ mouth = <<>>
    /\ \E bx \in BoxInputs :
         Set(do_box(Cur, bx, NoEnv), "do_box")

\* \setbox: a box is opened whose BoxInfo carries the target of the box
\* register
DoBoxTo ==
    /\ Running
    /\ mouth = <<>>
    /\ \E bx \in {"Horizontal", "Vertical"} :
         Set(do_box(Cur, bx, [NoEnv EXCEPT !.target = "register"]), "do_box")

\* CloseBox, had the end of a box group closed a box of the other family
CloseBoxOfOtherFamily ==
    /\ Running
    /\ mouth = <<>>
    /\ groups # <<>>
    /\ Last(groups) \in {"Horizontal", "Vertical"}
    /\ Set(close_box(Cur, IF Last(groups) = "Horizontal" THEN "Vertical" ELSE "Horizontal",
                     NoEnv),
           "close_box")

\* the group of a box ends: the box is closed
CloseBox ==
    /\ Running
    /\ mouth = <<>>
    /\ groups # <<>>
    /\ Last(groups) \in {"Horizontal", "Vertical"}
    /\ Set(close_box(Cur, Last(groups), NoEnv), "close_box")

\* a math shift in (restricted) horizontal mode opens a top-level math list;
\* display math opens from a paragraph only
OpenMath ==
    /\ Running
    /\ mouth = <<>>
    /\ is_horizontal(mode(open_lists))
    /\ \E display \in BOOLEAN :
         /\ display => mode(open_lists) = Horizontal
         /\ Set([state_push(Cur, "MathShift") EXCEPT
                    !.open_lists = Append(@, Frame("Math", "Top", display))],
                "open_math")

\* the closing math shift pops the top-level math list into the enclosing
\* horizontal list
CloseMath ==
    /\ Running
    /\ mouth = <<>>
    /\ open_lists # <<>>
    /\ Last(open_lists).fam = "Math" /\ Last(open_lists).tp = "Top"
    /\ Set(add_node_h([state_pop(Cur) EXCEPT !.open_lists = Front(@)],
                      Node("MathGroup", 0)),
           "close_math")

\* a character in math mode
DoCharInMath ==
    /\ Running
    /\ mouth = <<>>
    /\ is_math(mode(open_lists))
    /\ Set(do_char_in_math(Cur), "do_char_in_math")

MathcharInputs ==
    {ActiveMathCode, 1} \X
    {NoTok, Tok("character", "a", "-"), Tok("unexpandable", "relax", "Any")}

\* a mathchar in math mode
DoMathchar ==
    /\ Running
    /\ mouth = <<>>
    /\ is_math(mode(open_lists))
    /\ \E in \in MathcharInputs :
         Set(do_mathchar(Cur, in[1], in[2]), "do_mathchar")

\* read_char_or_math_group, had its callers not kept to math mode
ReadCharOrMathGroupInAnyMode ==
    /\ Running
    /\ mouth = <<>>
    /\ \E next \in {"begingroup", "char"} :
         Set(read_char_or_math_group(Cur, next), "read_char_or_math_group")

\* a math command reads its argument (read_char_or_math_group assumes math
\* mode)
ReadCharOrMathGroup ==
    /\ Running
    /\ mouth = <<>>
    /\ is_math(mode(open_lists))
    /\ \E next \in {"begingroup", "char"} :
         Set(read_char_or_math_group(Cur, next), "read_char_or_math_group")

\* the group of a math sub-list ends: the list is popped and handed to its
\* target, which installs it in the enclosing math list
CloseMathGroup ==
    /\ Running
    /\ mouth = <<>>
    /\ open_lists # <<>>
    /\ Last(open_lists).fam = "Math" /\ Last(open_lists).tp = "Target"
    /\ Set(add_node_m([state_pop(Cur) EXCEPT !.open_lists = Front(@)],
                      Node("MAtomList", 0)),
           "close_math_group")

\* \halign or \valign begins
OpenAlign ==
    /\ Running
    /\ mouth = <<>>
    /\ \E between \in {"Horizontal", "Vertical"} :
         Set(open_align(Cur, between), "open_align")

\* the alignment ends: close_align is called on its frame
CloseAlign ==
    /\ Running
    /\ mouth = <<>>
    /\ open_lists # <<>>
    /\ Last(open_lists).tp \in {"HAlign", "VAlign"}
    /\ Set(close_align(Cur, NoEnv), "close_align")

\* \par in horizontal mode closes the paragraph
ClosePar ==
    /\ Running
    /\ mouth = <<>>
    /\ mode(open_lists) = Horizontal
    /\ \E env \in OutputEnvs(Envs(FALSE, TRUE, FALSE)) :
         Set(close_paragraph(Cur, env), "close_paragraph")

\* the penalty argument of maybe_do_output: none, or the forced-break penalty
\* (at most -10000) the caller has just added
PenaltyInputs == {None, Some(ForcedPenalty), Some(ForcedPenalty - 1)}

\* maybe_do_output is called
MaybeDoOutput ==
    /\ Running
    /\ mouth = <<>>
    /\ \E penalty \in PenaltyInputs, env \in OutputEnvs({NoEnv}) :
         Set(maybe_do_output(Cur, penalty, env), "maybe_do_output")

\* the document ends
Flush ==
    /\ Running
    /\ mouth = <<>>
    /\ \E env \in OutputEnvs({NoEnv}) : Set(flush(Cur, env), "flush")

\* the entry points of the Stomach as the main loop reaches them
Dispatch ==
    \/ DoUnexpandable
    \/ DoAssignment
    \/ DoWhatsit
    \/ DoBox
    \/ CloseBox
    \/ OpenMath
    \/ CloseMath
    \/ DoCharInMath
    \/ DoMathchar
    \/ ReadCharOrMathGroup
    \/ CloseMathGroup
    \/ OpenAlign
    \/ CloseAlign
    \/ ClosePar
    \/ MaybeDoOutput
    \/ Flush

\* documents that use neither \afterassignment nor \pagegoal
DispatchSpec == Init /\ [][Dispatch]_vars

\* documents that use \afterassignment
SlotNext ==
    \/ Dispatch
    \/ SetAfterassignment

SlotSpec == Init /\ [][SlotNext]_vars

\* documents that set \pagegoal
PageNext ==
    \/ Dispatch
    \/ AssignPagegoal

PageSpec == Init /\ [][PageNext]_vars

\* documents that use \setbox
BoxNext ==
    \/ Dispatch
    \/ DoBoxTo

BoxSpec == Init /\ [][BoxNext]_vars

\* \begingroup, or a begin-group character outside math mode: the State
\* opens a group and no list is opened (the group counts toward the size of
\* the document)
BeginGroup ==
    /\ Running
    /\ mouth = <<>>
    /\ Within([Cur EXCEPT !.page = @ \o groups \o <<"Simple">>])
    /\ Set(state_push(Cur, "Simple"), "begingroup")

\* \endgroup, or the end-group character that ends a simple group
EndGroup ==
    /\ Running
    /\ mouth = <<>>
    /\ groups # <<>>
    /\ Last(groups) = "Simple"
    /\ Set(state_pop(Cur), "endgroup")

\* documents made of simple groups, boxes, alignments and whatsits
GroupNext ==
    \/ BeginGroup
    \/ EndGroup
    \/ DoBox
    \/ CloseBox
    \/ OpenAlign
    \/ CloseAlign
    \/ DoWhatsit
    \/ Flush

GroupSpec == Init /\ [][GroupNext]_vars

\* documents that set \prevgraf
ParNext ==
    \/ Dispatch
    \/ AssignPrevgraf

ParSpec == Init /\ [][ParNext]_vars

\* documents that use \afterassignment and set \pagegoal
Next ==
    \/ Dispatch
    \/ SetAfterassignment
    \/ AssignPagegoal

Spec == Init /\ [][Next]_vars

\* The main loop does not stop while a token waits in the mouth: it reads the
\* token and dispatches it.
ReadWaiting == mouth # <<>> /\ Dispatch

FairSpec == DispatchSpec /\ WF_vars(ReadWaiting)

\* ------------------------------------------------------ reading a box
\* the tokens of the input read_box may meet
ReadBoxTokens == {SpaceTok, EqTok, BoxTok, Tok("unexpandable", "relax", "Any")}

\* the inputs of at most MaxSize tokens
ReadBoxInputs == UNION { [1..n -> ReadBoxTokens] : n \in 0..MaxSize }

\* what a box primitive returns: a finished box, no box, or a BoxInfo
BoxResults == BoxInputs \cup {"none"}

\* a fresh Stomach in front of any input (mouth holds all of it)
ReadBoxInit ==
    /\ open_lists = <<>>
    /\ page = <<>>
    /\ pagetotal = 0
    /\ pagegoal = MaxDim
    /\ in_output = FALSE
    /\ lastpenalty = 0
    /\ prevgraf = 0
    /\ afterassignment = NoTok
    /\ mouth \in ReadBoxInputs
    /\ groups = <<>>
    /\ ret = [op |-> "new", out |-> "Ok", val |-> FALSE, calls |-> {}]

\* a box command whose `bx` callback is read_box (a command followed by a
\* box, as \setbox<n>= or \raise<dim>) is dispatched
DoBoxReadBox ==
    /\ Running
    /\ \E skip_eq \in BOOLEAN, b \in BoxResults, env \in Envs(TRUE, FALSE, FALSE) :
         LET rb == read_box(Cur, skip_eq, b, env)
         IN  Set(do_box(rb[1], rb[2], env), "read_box")

ReadBoxSpec == ReadBoxInit /\ [][DoBoxReadBox]_vars

\* ------------------------------------------------------- mode of any stack
\* the kinds of frame the Stomach and the engine push on open_lists
FrameKinds ==
    { Frame("Horizontal", "Paragraph", FALSE), Frame("Horizontal", "Box", FALSE),
      Frame("Horizontal", "VAlign", FALSE), Frame("Vertical", "Box", FALSE),
      Frame("Vertical", "HAlign", FALSE), Frame("Math", "Top", TRUE),
      Frame("Math", "Top", FALSE), Frame("Math", "Target", FALSE) }

\* every stack of at most MaxSize open frames
Stacks == UNION { [1..n -> FrameKinds] : n \in 0..MaxSize }

\* a StomachData whose open_lists is any stack
StackInit ==
    /\ open_lists \in Stacks
    /\ page = <<>>
    /\ pagetotal = 0
    /\ pagegoal = MaxDim
    /\ in_output = FALSE
    /\ lastpenalty = 0
    /\ prevgraf = 0
    /\ afterassignment = NoTok
    /\ mouth = <<>>
    /\ groups = <<>>
    /\ ret = [op |-> "new", out |-> "Ok", val |-> FALSE, calls |-> {}]

\* mode() is called: ret.val is the mode it returns
ModeOf ==
    /\ ret.out = "Ok"
    /\ LET m == mode(open_lists) IN
         ret' = [op |-> "mode", out |-> IF m = "unreachable" THEN "Panic" ELSE "Ok",
                 val |-> m, calls |-> {}]
    /\ UNCHANGED <<open_lists, page, pagetotal, pagegoal, in_output, lastpenalty,
                   prevgraf, afterassignment, mouth, groups>>

\* the horizontal nodes add_node_h is called with
HNodes == { Node("HKern", 1), Node("HPenalty", 5) }

\* add_node_h is called, whatever the stack
AddNodeH ==
    /\ ret.out = "Ok"
    /\ \E node \in HNodes : Set(add_node_h(Cur, node), "add_node_h")

\* the vertical nodes add_node_v is called with
VNodes == { Node("VBox", 1), Node("VKern", 2) }

\* add_node_v is called, whatever the stack
AddNodeV ==
    /\ ret.out = "Ok"
    /\ \E node \in VNodes : Set(add_node_v(Cur, node, NoEnv), "add_node_v")

\* close_align is called although no align frame is on top
CloseAlignOutsideAlign ==
    /\ ret.out = "Ok"
    /\ IF open_lists = <<>> THEN TRUE
       ELSE Last(open_lists).tp \notin {"HAlign", "VAlign"}
    /\ Set(close_align(Cur, NoEnv), "close_align")

StackNext ==
    \/ ModeOf
    \/ AddNodeH
    \/ AddNodeV
    \/ CloseAlign
    \/ CloseAlignOutsideAlign

StackSpec == StackInit /\ [][StackNext]_vars

\* ==================================================================== claims
\* the positions in a journal of the calls named e
EventsOf(r, e) == { i \in DOMAIN r.ev : r.ev[i].e = e }

\* ------------------------------------------------------------------------ C1
\* C1: in every reachable state the mode is a function of open_lists alone:
\* Vertical iff open_lists is empty, Horizontal iff the top frame is a
\* horizontal Paragraph frame, RestrictedHorizontal iff it is any other
\* horizontal frame, InternalVertical iff it is a vertical frame; a fresh
\* Stomach is in Vertical mode.
ModeIsDerived ==
    LET m == mode(open_lists)
        open == open_lists # <<>>
        top == Last(open_lists)
    IN  /\ (m = Vertical) <=> ~open
        /\ (m = Horizontal) <=> (open /\ top.fam = "Horizontal" /\ top.tp = "Paragraph")
        /\ (m = RestrictedHorizontal) <=>
                (open /\ top.fam = "Horizontal" /\ top.tp # "Paragraph")
        /\ (m = InternalVertical) <=> (open /\ top.fam = "Vertical")
        /\ ret.op = "new" => m = Vertical

\* a paragraph is open inside a box: the mode is Horizontal above a vertical frame
ModeIsDerivedWitness ==
    /\ Len(open_lists) >= 2
    /\ mode(open_lists) = Horizontal
    /\ mode(Front(open_lists)) = InternalVertical

\* ------------------------------------------------------------------------ C2
\* the decision table of maybe_switch_mode, by scope and mode
Decision(scope, m) ==
    CASE scope = "Any" -> "proceed"
      [] scope = "SwitchesToVertical" ->
            IF is_vertical(m) THEN "proceed"
            ELSE IF m = Horizontal THEN "suppress" ELSE "error"
      [] scope = "SwitchesToHorizontal" ->
            IF is_vertical(m) THEN "suppress"
            ELSE IF is_horizontal(m) THEN "proceed" ELSE "error"
      [] scope = "SwitchesToHorizontalOrMath" ->
            IF is_vertical(m) THEN "suppress" ELSE "proceed"
      [] scope = "MathOnly" -> IF is_math(m) THEN "proceed" ELSE "error"

\* C2: for every scope and every mode maybe_switch_mode decides as the decision
\* table says: it returns true where the table proceeds, false without an
\* error where it suppresses, and where the table has an error it reports
\* not_allowed_in_mode exactly once, with the command and the current mode
\* (the call fails unless the error sink recovers; it never returns true).
DecisionTableHolds ==
    LET m == mode(open_lists) IN
    \A tok \in NextTokens(UnexpandableTokens), env \in Envs(TRUE, FALSE, TRUE) :
        LET r == maybe_switch_mode(Taken, tok.scope, tok, env)
            d == Decision(tok.scope, m)
            errs == EventsOf(r, "not_allowed_in_mode")
        IN  /\ d = "proceed" => r.out = "Ok" /\ r.val /\ errs = {}
            /\ d = "suppress" => r.out = "Ok" /\ ~r.val /\ errs = {}
            /\ d = "error" =>
                /\ ~r.val
                /\ Cardinality(errs) = 1
                /\ \A i \in errs : r.ev[i].tok = tok /\ r.ev[i].info = m
                /\ (r.out = "Err") <=> ~env.recover
                /\ (r.out = "Ok") <=> env.recover

\* a command was rejected in display math mode
DecisionTableWitness ==
    /\ ret.op = "do_unexpandable"
    /\ "not_allowed_in_mode" \in ret.calls
    /\ ret.out = "Err"
    /\ mode(open_lists) = DisplayMath
\* ------------------------------------------------------------------------ C3
\* the tokens the main loop can read next whose scope is one of scopes
NextOfScope(scopes) ==
    NextTokens({ tok \in UnexpandableTokens : tok.scope \in scopes })

\* maybe_switch_mode, called with tok in a vertical mode, opens a paragraph:
\* it returns false, exactly one frame is pushed, a horizontal Paragraph frame,
\* and the mode becomes Horizontal; if requeued, tok is put back exactly once,
\* behind the tokens of \everypar and before every later token, otherwise
\* it is not put back at all
OpensParagraph(tok, env, requeued) ==
    LET s == Taken
        r == maybe_switch_mode(s, tok.scope, tok, env)
        back == EventsOf(r, "requeue")
        top == Last(r.open_lists)
    IN  /\ r.out = "Ok" /\ ~r.val
        /\ Len(r.open_lists) = Len(open_lists) + 1
        /\ Front(r.open_lists) = open_lists
        /\ top.fam = "Horizontal" /\ top.tp = "Paragraph"
        /\ mode(r.open_lists) = Horizontal
        /\ IF requeued
           THEN /\ Cardinality(back) = 1
                /\ \A i \in back : r.ev[i].tok = tok
                /\ r.mouth = env.everypar \o <<tok>> \o s.mouth
           ELSE /\ back = {}
                /\ r.mouth = env.everypar \o s.mouth

ClosesParagraphForVertical ==
    mode(open_lists) = Horizontal =>
        \A tok \in NextOfScope({"SwitchesToVertical"}), env \in Envs(FALSE, TRUE, FALSE) :
          \A body \in {BodyOf(tok), "err"} :
            LET s == Taken
                r == maybe_switch_mode(s, tok.scope, tok, env)
                d == do_unexpandable(s, tok.scope, tok, body, env)
            IN  /\ r.out = "Ok" /\ ~r.val
                /\ EventsOf(r, "requeue") = {1}
                /\ r.ev[1].tok = tok
                /\ r.ev[1].depth = Len(open_lists)
                /\ Len(r.open_lists) = Len(open_lists) - 1
                /\ \A i \in DOMAIN r.open_lists :
                        /\ r.open_lists[i].fam = open_lists[i].fam
                        /\ r.open_lists[i].tp = open_lists[i].tp
                /\ d = r
                /\ EventsOf(d, "apply") = {}

\* a SwitchesToVertical command has just closed a paragraph whose lines went
\* to the page, and waits in the mouth
ClosesParagraphWitness ==
    /\ ret.op = "do_unexpandable"
    /\ "requeue" \in ret.calls
    /\ "push_every" \notin ret.calls
    /\ ~ret.val
    /\ mode(open_lists) = Vertical
    /\ page # <<>>
    /\ mouth # <<>>
    /\ Head(mouth).scope = "SwitchesToVertical"
\* ------------------------------------------------------------------------ C5
\* do_unexpandable has just opened a paragraph for a SwitchesToHorizontal
\* command, \everypar being empty: the command is the one token waiting
ParagraphOpenedFor ==
    /\ ret.op = "do_unexpandable"
    /\ "push_every" \in ret.calls
    /\ Len(mouth) = 1
    /\ Head(mouth).scope = "SwitchesToHorizontal"

\* the body of a SwitchesToHorizontal command has just been run in Horizontal
\* mode, with no paragraph opened for it and no token left waiting
BodyRunInParagraph ==
    /\ ret.op = "do_unexpandable"
    /\ ret.val
    /\ "apply" \in ret.calls
    /\ "push_every" \notin ret.calls
    /\ "requeue" \notin ret.calls
    /\ mouth = <<>>
    /\ mode(open_lists) = Horizontal

\* C5: a SwitchesToHorizontal command dispatched through do_unexpandable in a
\* vertical mode, \everypar being empty, is executed exactly once: the dispatch
\* that opens the paragraph requeues the command without running its body, the
\* very next dispatch is of the requeued command, finds Horizontal mode and
\* runs the body without opening another paragraph, and that dispatch does
\* happen.
SwitchingCommandRunsOnce ==
    /\ [](ParagraphOpenedFor => "apply" \notin ret.calls /\ ~ret.val)
    /\ [][ParagraphOpenedFor => BodyRunInParagraph']_vars
    /\ (ParagraphOpenedFor ~> BodyRunInParagraph)

\* the requeued command has been re-dispatched: its node lies behind the
\* indent box of the paragraph opened for it
SwitchingCommandWitness ==
    /\ BodyRunInParagraph
    /\ ret.out = "Ok"
    /\ Len(Last(open_lists).children) = 2
    /\ Last(open_lists).children[1].k = "ParIndent"
    /\ Last(open_lists).children[2].k = "HKern"
\* ------------------------------------------------------------------------ C6
\* every assignment the main loop can dispatch next, with every outcome of its
\* value parse or `assign` callback
AssignParses ==
    { in \in NextTokens(AssignTokens) \X {"ok", "err", "pagegoal"} :
        in[2] = "pagegoal" => in[1].name = "do_assignment" }

\* C6: when an assignment entry point completes successfully, the queued
\* \afterassignment token, if any, is inserted exactly once, at the front of
\* the mouth, before every token that follows the assignment, and the slot is
\* empty afterwards; with an empty slot (so also in a later assignment with no
\* new \afterassignment) nothing is inserted.
AfterassignmentInsertedOnce ==
    \A in \in AssignParses :
        LET s == Taken
            r == assign_entry(s, in[1].name, in[2])
            inserted == EventsOf(r, "insert_afterassignment")
        IN  r.out = "Ok" =>
                /\ r.afterassignment = NoTok
                /\ IF afterassignment # NoTok
                   THEN /\ Cardinality(inserted) = 1
                        /\ Cardinality(EventsOf(r, "requeue")) = 1
                        /\ r.mouth = <<afterassignment>> \o s.mouth
                   ELSE /\ inserted = {}
                        /\ r.mouth = s.mouth

\* an assignment has succeeded and inserted the queued token, which waits in
\* the mouth; the slot is empty
AfterassignmentWitness ==
    /\ ret.op = "assignment"
    /\ ret.out = "Ok"
    /\ "insert_afterassignment" \in ret.calls
    /\ mouth \in { <<tok>> : tok \in AfterTokens }
    /\ afterassignment = NoTok

\* ------------------------------------------------------------------------ C7
\* C7: when an assignment fails (the `assign` callback of do_assignment or the
\* value parse of an assign_*_register or assign_primitive_* entry point
\* returns an error), the \afterassignment slot keeps its token, nothing is
\* inserted into the mouth, and neither the State nor pagegoal is written.
FailedAssignmentKeepsSlot ==
    \A in \in AssignParses :
        LET s == Taken
            r == assign_entry(s, in[1].name, in[2])
        IN  /\ (in[2] = "err" /\ in[1].name # "assign_font") => r.out = "Err"
            /\ r.out = "Err" =>
                /\ r.afterassignment = afterassignment
                /\ r.mouth = s.mouth
                /\ EventsOf(r, "insert_afterassignment") = {}
                /\ EventsOf(r, "requeue") = {}
                /\ EventsOf(r, "state.set") = {}
                /\ EventsOf(r, "set") = {}
                /\ r.pagegoal = pagegoal

\* an assignment has failed while a token was queued: the token is still
\* queued and no token waits in the mouth
FailedAssignmentWitness ==
    /\ ret.op = "assignment"
    /\ ret.out = "Err"
    /\ afterassignment # NoTok
    /\ mouth = <<>>
\* ------------------------------------------------------------------------ C8
\* the call that returned r has left the \afterassignment slot as it is in the
\* current state and has inserted nothing on its behalf
LeavesSlot(r) ==
    /\ r.afterassignment = afterassignment
    /\ EventsOf(r, "insert_afterassignment") = {}

\* C8: the non-assignment entry points (do_unexpandable and maybe_switch_mode,
\* do_whatsit, do_box, do_char_in_math, do_mathchar, open_paragraph and
\* close_paragraph, open_align and close_align, add_node_h and add_node_m,
\* maybe_do_output), called in any reachable state with any input, never
\* insert the \afterassignment token into the mouth and leave the slot as it
\* was.
NonAssignmentsLeaveSlot ==
    /\ \A in \in UnexpandableInputs({"err"}) :
            /\ \A r \in {do_unexpandable(Taken, in[1].scope, in[1], in[2], in[3])} : LeavesSlot(r)
            /\ \A r \in {maybe_switch_mode(Taken, in[1].scope, in[1], in[3])} : LeavesSlot(r)
    /\ \A read \in {"some", "none", "err"} : \A r \in {do_whatsit(Cur, read, NoEnv)} : LeavesSlot(r)
    /\ \A bx \in {"box", "none", "err", "Horizontal", "Vertical"} :
            \A r \in {do_box(Cur, bx, NoEnv)} : LeavesSlot(r)
    /\ \A r \in {do_char_in_math(Cur)} : LeavesSlot(r)
    /\ \A in \in MathcharInputs : \A r \in {do_mathchar(Cur, in[1], in[2])} : LeavesSlot(r)
    /\ \A tok \in UnexpandableTokens, env \in Envs(FALSE, FALSE, TRUE) :
            \A r \in {open_paragraph(Cur, tok, env)} : LeavesSlot(r)
    /\ \A env \in Envs(FALSE, TRUE, FALSE) : \A r \in {close_paragraph(Cur, env)} : LeavesSlot(r)
    /\ \A between \in {"Horizontal", "Vertical"} : \A r \in {open_align(Cur, between)} : LeavesSlot(r)
    /\ \A r \in {close_align(Cur, NoEnv)} : LeavesSlot(r)
    /\ \A node \in {Node("HKern", 1), Node("HPenalty", 5)} : \A r \in {add_node_h(Cur, node)} : LeavesSlot(r)
    /\ \A r \in {add_node_m(Cur, Node("MKern", 1))} : LeavesSlot(r)
    /\ \A penalty \in PenaltyInputs : \A r \in {maybe_do_output(Cur, penalty, NoEnv)} : LeavesSlot(r)

\* a box was added while a token was queued: the token is still queued and no
\* token waits in the mouth
NonAssignmentWitness ==
    /\ ret.op = "do_box"
    /\ "add_box" \in ret.calls
    /\ ret.out = "Ok"
    /\ afterassignment # NoTok
    /\ mouth = <<>>

\* ------------------------------------------------------------------------ C9
\* C9: maybe_do_output calls do_output if and only if in_output is false,
\* open_lists is empty, the page is not empty, and pagetotal >= pagegoal or the
\* penalty argument holds a penalty (of at most -10000) that was just added;
\* in every other state, the states inside an output routine included, it
\* returns without changing anything.  A forced-break penalty triggers the
\* output although pagetotal < pagegoal.
OutputTriggeredIff ==
    \A penalty \in PenaltyInputs, inside \in BOOLEAN :
        LET s == [Cur EXCEPT !.in_output = inside]
            r == maybe_do_output(s, penalty, NoEnv)
            forced == penalty.some /\ penalty.v <= ForcedPenalty
            due == /\ ~inside
                   /\ open_lists = <<>>
                   /\ page # <<>>
                   /\ (pagetotal >= pagegoal \/ forced)
        IN  /\ (EventsOf(r, "do_output") # {}) <=> due
            /\ ~due => r = s
            /\ (due /\ forced /\ pagetotal < pagegoal) =>
                    Cardinality(EventsOf(r, "output_routine")) = 1

\* maybe_do_output, given a forced-break penalty, has run the output routine
\* on a page that could not have reached the goal
OutputTriggeredWitness ==
    /\ ret.op = "maybe_do_output"
    /\ "do_output" \in ret.calls
    /\ pagegoal = MaxDim
    /\ page = <<>>

\* ----------------------------------------------------------------------- C10
\* in the call that returned r, every do_output started with open_lists empty
\* and the page not empty, every do_output returned with the page empty and
\* in_output false, and every do_output that started returned
OutputOnAPage(r) ==
    /\ \A i \in EventsOf(r, "do_output") :
            r.ev[i].depth = 0 /\ r.ev[i].pagelen > 0
    /\ \A i \in EventsOf(r, "do_output returns") :
            r.ev[i].pagelen = 0 /\ ~r.ev[i].in_output
    /\ Cardinality(EventsOf(r, "do_output")) =
            Cardinality(EventsOf(r, "do_output returns"))

\* C10: for every run of the output routine, whichever entry point the page
\* builder is reached from (a command body, a whatsit, a box, the end of a
\* box, of a paragraph or of an alignment, maybe_do_output itself, flush):
\* when do_output starts open_lists is empty and the page is not empty, and
\* when it returns the page is empty and in_output is false.
OutputRunsOnAPage ==
    /\ \A in \in UnexpandableInputs({}) :
            \A r \in {do_unexpandable(Taken, in[1].scope, in[1], in[2], in[3])} : OutputOnAPage(r)
    /\ \A r \in {do_whatsit(Cur, "some", NoEnv)} : OutputOnAPage(r)
    /\ \A r \in {do_box(Cur, "box", NoEnv)} : OutputOnAPage(r)
    /\ \A bt \in {"Horizontal", "Vertical"} :
            \A r \in {close_box(Cur, bt, NoEnv)} : OutputOnAPage(r)
    /\ \A env \in Envs(FALSE, TRUE, FALSE) : \A r \in {close_paragraph(Cur, env)} : OutputOnAPage(r)
    /\ \A r \in {close_align(Cur, NoEnv)} : OutputOnAPage(r)
    /\ \A penalty \in PenaltyInputs : \A r \in {maybe_do_output(Cur, penalty, NoEnv)} : OutputOnAPage(r)
    /\ \A r \in {flush(Cur, NoEnv)} : OutputOnAPage(r)

\* the page has reached its goal while a command added a box: the output
\* routine has run and left the page empty
OutputRunsWitness ==
    /\ ret.op = "do_unexpandable"
    /\ "do_output" \in ret.calls
    /\ pagegoal = SmallGoal
    /\ page = <<>>
    /\ ~in_output

\* ----------------------------------------------------------------------- C11
\* in the call that returned r, no do_output started while in_output was set,
\* and none started between the start and the return of another
NotNested(r) ==
    /\ \A i \in EventsOf(r, "do_output") : ~r.ev[i].in_output
    /\ \A i \in EventsOf(r, "do_output"), j \in EventsOf(r, "do_output") :
            i < j => \E k \in EventsOf(r, "do_output returns") : i < k /\ k < j

\* the page totals and goals maybe_do_output is tried with
PageDims == {0, SmallGoal, MaxDim}

\* C11: the output routine is never nested through maybe_do_output.  Called
\* while in_output is true, maybe_do_output returns without starting do_output
\* and without changing anything, whatever the page, the page total, the page
\* goal and the penalty are; and in every entry point that reaches the page
\* builder, whatever the output routine adds to the page, do_output starts
\* only with in_output false and after every earlier do_output has returned.
OutputNeverNested ==
    /\ \A penalty \in PenaltyInputs, env \in OutputEnvs({NoEnv}) :
        \A total \in PageDims, goal \in PageDims :
            LET s == [Cur EXCEPT !.in_output = TRUE, !.pagetotal = total,
                                 !.pagegoal = goal]
            IN  maybe_do_output(s, penalty, env) = s
    /\ \A in \in UnexpandableInputs({}) :
            \A r \in {do_unexpandable(Taken, in[1].scope, in[1], in[2], in[3])} : NotNested(r)
    /\ \A env \in OutputEnvs({NoEnv}) :
            /\ \A r \in {do_whatsit(Cur, "some", env)} : NotNested(r)
            /\ \A r \in {do_box(Cur, "box", env)} : NotNested(r)
            /\ \A bt \in {"Horizontal", "Vertical"} :
                    \A r \in {close_box(Cur, bt, env)} : NotNested(r)
            /\ \A r \in {close_align(Cur, env)} : NotNested(r)
            /\ \A penalty \in PenaltyInputs :
                    \A r \in {maybe_do_output(Cur, penalty, env)} : NotNested(r)
            /\ \A r \in {flush(Cur, env)} : NotNested(r)
    /\ \A env \in OutputEnvs(Envs(FALSE, TRUE, FALSE)) :
            \A r \in {close_paragraph(Cur, env)} : NotNested(r)

\* a command has filled the page, and the output routine it started has added
\* a box and a forced-break penalty of its own; the routine has returned
OutputNeverNestedWitness ==
    /\ ret.op = "do_unexpandable"
    /\ {"do_output", "routine", "apply"} \subseteq ret.calls
    /\ ret.out = "Ok"
    /\ pagegoal = SmallGoal
    /\ ~in_output

\* ----------------------------------------------------------------------- C12
\* the positions of the math frames tagged Top on the stack ls
TopFrames(ls) == { i \in DOMAIN ls : ls[i].fam = "Math" /\ ls[i].tp = "Top" }

\* mode() has been called on a stack whose top frame is a math frame and
\* which holds a Top frame
ModeOfMathStack ==
    /\ ret.op = "mode"
    /\ open_lists # <<>>
    /\ Last(open_lists).fam = "Math"
    /\ TopFrames(open_lists) # {}

\* the mode the display flag of frame i stands for
ModeOfTop(i) == IF open_lists[i].display THEN DisplayMath ELSE InlineMath

\* C12 as stated: when the top frame is a math frame, mode() is decided by the
\* outermost Top frame, the one nearest the base of the stack, for every stack.
ModeByOutermostTop ==
    ModeOfMathStack =>
        LET tops == TopFrames(open_lists)
            outermost == CHOOSE i \in tops : \A j \in tops : i <= j
        IN  ret.val = ModeOfTop(outermost)

\* C12, amended: when the top frame is a math frame, mode() is decided by the
\* innermost Top frame, the first one met scanning from the top of the stack
\* toward its base: DisplayMath if its display flag is true, otherwise
\* InlineMath.  This holds for every stack that holds a Top frame.
ModeByInnermostTop ==
    ModeOfMathStack =>
        LET tops == TopFrames(open_lists)
            innermost == CHOOSE i \in tops : \A j \in tops : i >= j
        IN  /\ ret.out = "Ok"
            /\ ret.val = ModeOfTop(innermost)

\* mode() has answered for an inline formula in a box inside a display
ModeByInnermostTopWitness ==
    /\ ModeOfMathStack
    /\ Len(open_lists) = 3
    /\ open_lists[1].tp = "Top" /\ open_lists[1].display
    /\ open_lists[2].fam = "Horizontal"
    /\ open_lists[3].tp = "Top" /\ ~open_lists[3].display
    /\ ret.val = InlineMath

\* ----------------------------------------------------------------------- C13
\* C13: in every state reached through the operations of the Stomach, every
\* math frame on open_lists has a math frame tagged Top at or below it, so
\* whenever open_lists contains a math frame it contains a Top frame, and
\* mode() returns one of the six modes, never reaching unreachable!().
MathFramesHaveTop ==
    /\ \A i \in DOMAIN open_lists :
            open_lists[i].fam = "Math" =>
                \E j \in 1..i : open_lists[j].fam = "Math" /\ open_lists[j].tp = "Top"
    /\ mode(open_lists) \in TeXMode

\* read_char_or_math_group has opened a math sub-list: a Target frame lies on
\* top of the stack, above the Top frame of its formula
MathFramesHaveTopWitness ==
    /\ ret.op = "read_char_or_math_group"
    /\ ret.out = "Ok"
    /\ Last(open_lists).fam = "Math" /\ Last(open_lists).tp = "Target"
    /\ \E j \in DOMAIN open_lists : open_lists[j].tp = "Top"
    /\ is_math(mode(open_lists))

\* ----------------------------------------------------------------------- C14
\* C14: add_node_h called when the top of open_lists is not a horizontal frame
\* (the stack is empty, or its top frame is a vertical or a math frame) traps,
\* and leaves every open list and the page as they were; called when the top
\* frame is horizontal it appends the node at the end of that frame and
\* changes no other frame and not the page.
AddNodeHTrapsOutsideHorizontal ==
    \A node \in HNodes :
        LET r == add_node_h(Cur, node)
            n == Len(open_lists)
        IN  IF open_lists # <<>> /\ Last(open_lists).fam = "Horizontal"
            THEN /\ r.out = "Ok"
                 /\ r.page = page
                 /\ Len(r.open_lists) = n
                 /\ \A i \in 1..(n - 1) : r.open_lists[i] = open_lists[i]
                 /\ r.open_lists[n] =
                        [open_lists[n] EXCEPT !.children = Append(@, node)]
            ELSE /\ r.out = "Panic"
                 /\ r.open_lists = open_lists
                 /\ r.page = page

\* add_node_h was called in a formula inside a horizontal box and has trapped:
\* the box below the math frame has not received the node
AddNodeHTrapsWitness ==
    /\ ret.op = "add_node_h"
    /\ ret.out = "Panic"
    /\ Len(open_lists) >= 2
    /\ Last(open_lists).fam = "Math"
    /\ open_lists[Len(open_lists) - 1].fam = "Horizontal"
    /\ open_lists[Len(open_lists) - 1].children = <<>>

\* ----------------------------------------------------------------------- C15
\* C15: when bx returns a BoxInfo, do_box pushes exactly one frame, the empty
\* list of the box, and leaves the frames below and the page as they were;
\* when bx returns a finished box, the box is handed to the box target exactly
\* once and no frame is pushed or popped; when bx returns no box, nothing at
\* all changes.
DoBoxPushesOneFrame ==
    /\ \A bx \in {"Horizontal", "Vertical"} :
            LET r == do_box(Cur, bx, NoEnv)
            IN  /\ r.out = "Ok"
                /\ Len(r.open_lists) = Len(open_lists) + 1
                /\ Front(r.open_lists) = open_lists
                /\ Last(r.open_lists) = open_list(bx, "none")
                /\ r.page = page /\ r.pagetotal = pagetotal
                /\ EventsOf(r, "add_box") = {}
    /\ \A env \in OutputEnvs({NoEnv}) :
            LET r == do_box(Cur, "box", env)
            IN  /\ r.out = "Ok"
                /\ Cardinality(EventsOf(r, "add_box")) = 1
                /\ Len(r.open_lists) = Len(open_lists)
                /\ \A i \in DOMAIN open_lists :
                        /\ r.open_lists[i].fam = open_lists[i].fam
                        /\ r.open_lists[i].tp = open_lists[i].tp
                        /\ i < Len(open_lists) => r.open_lists[i] = open_lists[i]
    /\ do_box(Cur, "none", NoEnv) = Cur

\* do_box has opened a box inside another box while the page held material:
\* the new empty frame lies on top, the page is still there
DoBoxPushesOneFrameWitness ==
    /\ ret.op = "do_box"
    /\ ret.calls = {}
    /\ Len(open_lists) = 2
    /\ Last(open_lists) = open_list("Vertical", "none")
    /\ page # <<>>

\* ----------------------------------------------------------------------- C16
\* the position on the group stack of the group opened with frame i of
\* open_lists (a paragraph opens no group)
GroupOf(i) == Cardinality({ j \in 1..i : open_lists[j].tp # "Paragraph" })

\* the group of every open box is still open, and is of the box's family
BoxGroupsOpen ==
    \A i \in DOMAIN open_lists :
        open_lists[i].tp = "Box" =>
            /\ GroupOf(i) <= Len(groups)
            /\ groups[GroupOf(i)] = open_lists[i].fam

\* close_box(bt) on the current stack: if the innermost frame is a box list of
\* the family bt, the frame is popped, then its group, and the finished box is
\* handed once to the target the frame recorded; otherwise the call is an
\* internal error and no box is made
CloseBoxMatches(bt) ==
    LET r == close_box(Cur, bt, NoEnv)
        pops == EventsOf(r, "state.pop")
        boxes == EventsOf(r, "add_box")
    IN  IF open_lists # <<>> /\ Last(open_lists).tp = "Box" /\ Last(open_lists).fam = bt
        THEN /\ r.out = "Ok"
             /\ Len(r.open_lists) = Len(open_lists) - 1
             /\ Cardinality(pops) = 1 /\ Cardinality(boxes) = 1
             /\ \A k \in pops : r.ev[k].depth = Len(open_lists) - 1
             /\ \A k \in boxes : r.ev[k].info = Last(open_lists).target
             /\ \A k \in pops : \A b \in boxes : k < b
        ELSE /\ r.out = "Panic"
             /\ boxes = {}
             /\ EventsOf(r, "state.set") = {}
             /\ r.page = page
             /\ open_lists # <<>> => r.open_lists = Front(open_lists)

\* the step leaves the box frame i where it is
BoxFrameStays(i) ==
    /\ i <= Len(open_lists')
    /\ open_lists'[i].tp = "Box"
    /\ open_lists'[i].fam = open_lists[i].fam
    /\ open_lists'[i].target = open_lists[i].target

\* the step is a close_box of the family of the box frame i, the innermost
\* frame: it pops the frame and its group and hands the box to a target
BoxFrameClosed(i) ==
    /\ i = Len(open_lists)
    /\ ret'.op = "close_box" /\ ret'.out = "Ok"
    /\ "add_box" \in ret'.calls
    /\ Len(open_lists') = i - 1
    /\ Last(groups) = open_lists[i].fam
    /\ groups' = Front(groups)

\* C16 as stated: every frame pushed by do_box is popped by a close_box of the
\* same family before its group pops, the finished box going to the target
\* recorded in the frame, and by nothing else; a close_box of another family
\* is an internal error and makes no box.
BoxFramesClosedByCloseBox ==
    /\ [](BoxGroupsOpen /\ \A bt \in {"Horizontal", "Vertical"} : CloseBoxMatches(bt))
    /\ [][\A i \in DOMAIN open_lists :
            open_lists[i].tp = "Box" => BoxFrameStays(i) \/ BoxFrameClosed(i)]_vars

\* C16, amended: a frame pushed by do_box stays on open_lists, with its group
\* open, until it is popped by one close_box of the same family, which pops
\* the frame, then its group, and hands the finished box to the target
\* recorded in the frame, or until the document ends inside the box, when
\* flush drops the frame and pops its group without any close_box; a
\* close_box of another family is an internal error and makes no box.
BoxFramesClosedOrFlushed ==
    /\ [](BoxGroupsOpen /\ \A bt \in {"Horizontal", "Vertical"} : CloseBoxMatches(bt))
    /\ [][\A i \in DOMAIN open_lists :
            open_lists[i].tp = "Box" =>
                BoxFrameStays(i) \/ BoxFrameClosed(i) \/ ret'.op = "flush"]_vars

\* the box of a \setbox has been closed: its frame and its group are gone and
\* the finished box went to the box register, not to the page
BoxFramesClosedWitness ==
    /\ ret.op = "close_box"
    /\ ret.out = "Ok"
    /\ ret.calls = {"add_box"}
    /\ open_lists = <<>>
    /\ groups = <<>>
    /\ page = <<>>

\* ----------------------------------------------------------------------- C17
\* C17 as stated: close_align pops the innermost align frame, of either kind;
\* if the enclosing frame is a math frame the children are wrapped as one atom
\* with a VCenter nucleus, appended to that math frame; otherwise the children
\* are appended, in their order, to the enclosing list (the page when no list
\* encloses the alignment).
CloseAlignReparents ==
    (open_lists # <<>> /\ Last(open_lists).tp \in {"HAlign", "VAlign"}) =>
        LET top == Last(open_lists)
            below == Front(open_lists)
            r == close_align(Cur, NoEnv)
        IN  /\ r.out = "Ok"
            /\ CASE below = <<>> ->
                        r.open_lists = <<>> /\ r.page = page \o top.children
                  [] below # <<>> /\ Last(below).fam = "Math" ->
                        /\ r.open_lists = AppendTop(below, VCenterAtom(top.children))
                        /\ r.page = page
                  [] OTHER ->
                        /\ r.open_lists =
                                [below EXCEPT ![Len(below)].children = @ \o top.children]
                        /\ r.page = page

\* ----------------------------------------------------------------------- C18
\* the tokens that open a paragraph in vertical mode
ParagraphTokens ==
    { tok \in UnexpandableTokens :
        tok.scope \in {"SwitchesToHorizontal", "SwitchesToHorizontalOrMath"} }

\* the entries of a journal that concern the mouth, in order
RECURSIVE MouthEvents(_, _)
MouthEvents(ev, i) ==
    IF i = 0 THEN <<>>
    ELSE IF ev[i].e \in {"requeue", "push_every"}
         THEN Append(MouthEvents(ev, i - 1), <<ev[i].e, ev[i].tok>>)
         ELSE MouthEvents(ev, i - 1)

\* C18: open_paragraph(token), called in (internal) vertical mode, sets
\* prevgraf to 0 and pushes exactly one Horizontal Paragraph frame onto
\* open_lists.  For \indent the frame holds one ParIndent box of width
\* \parindent and the token is not requeued; for \noindent the frame is empty
\* and the token is not requeued; for any other token the token is requeued
\* and the ParIndent box is the first (and only) child.  In all three cases
\* pushing \everypar is the last thing done to the mouth, so its tokens are
\* read before the requeued token.
OpenParagraphEffects ==
    is_vertical(mode(open_lists)) =>
        \A token \in ParagraphTokens, env \in Envs(FALSE, FALSE, TRUE) :
            LET r == open_paragraph(Cur, token, env)
                frame == Last(r.open_lists)
                indentbox == Node("ParIndent", env.parindent)
                requeued == token.name \notin {"indent", "noindent"}
            IN  /\ r.out = "Ok"
                /\ r.prevgraf = 0
                /\ Len(r.open_lists) = Len(open_lists) + 1
                /\ Front(r.open_lists) = open_lists
                /\ frame.fam = "Horizontal" /\ frame.tp = "Paragraph"
                /\ frame.children =
                        IF token.name = "noindent" THEN <<>> ELSE <<indentbox>>
                /\ MouthEvents(r.ev, Len(r.ev)) =
                        (IF requeued THEN << <<"requeue", token>> >> ELSE <<>>)
                            \o << <<"push_every", NoTok>> >>
                /\ r.mouth = env.everypar \o (IF requeued THEN <<token>> ELSE <<>>) \o mouth
                /\ r.page = page /\ r.groups = groups

\* a paragraph has been opened by a token other than \indent and \noindent:
\* prevgraf is 0, the indent box is in the new frame and the token waits in
\* the mouth
OpenParagraphWitness ==
    /\ ret.op = "do_unexpandable"
    /\ ret.calls = {"requeue", "push_every"}
    /\ prevgraf = 0
    /\ open_lists = << [Frame("Horizontal", "Paragraph", FALSE) EXCEPT
                            !.children = <<Node("ParIndent", 20)>>] >>
    /\ mouth = <<Tok("unexpandable", "kern", "SwitchesToHorizontal")>>

\* ----------------------------------------------------------------------- C19
\* the number of Line items among the items the splitter returns
LineCount(lines) == Cardinality({ i \in DOMAIN lines : lines[i] = "Line" })

\* the number of boxes in a vertical list
BoxCount(nodes) == Cardinality({ i \in DOMAIN nodes : nodes[i].k = "VBox" })

\* the vertical list that encloses the top frame of ls: the children of the
\* frame below it, or the page
Enclosing(ls, pg) == IF Len(ls) > 1 THEN ls[Len(ls) - 1].children ELSE pg

\* close_paragraph closes a non-empty paragraph and returns Ok: as many boxes
\* enter the enclosing vertical list as the splitter returned Line items (no
\* page being output meanwhile)
LinesEnterVerticalList ==
    (mode(open_lists) = Horizontal /\ Last(open_lists).children # <<>>) =>
        \A env \in Envs(FALSE, TRUE, FALSE) :
            LET r == close_paragraph(Cur, env)
                before == Enclosing(open_lists, page)
                after == Enclosing(Append(r.open_lists, Last(open_lists)), r.page)
            IN  (r.out = "Ok" /\ "do_output" \notin Calls(r.ev)) =>
                    BoxCount(after) = BoxCount(before) + LineCount(env.lines)

\* C19 as stated: for every non-empty paragraph closed by close_paragraph the
\* number of Line items the splitter emits equals the number of line boxes
\* appended to the enclosing vertical list, and prevgraf equals that count
\* when close_paragraph returns.
ParagraphLinesCounted ==
    /\ LinesEnterVerticalList
    /\ (mode(open_lists) = Horizontal /\ Last(open_lists).children # <<>>) =>
            \A env \in Envs(FALSE, TRUE, FALSE) :
                LET r == close_paragraph(Cur, env)
                IN  r.out = "Ok" => r.prevgraf = LineCount(env.lines)

\* ----------------------------------------------------------------------- C20
\* the entries of a journal that start an output routine
OutputsOf(ev) == { i \in DOMAIN ev : ev[i].e = "do_output" }

\* C20: flush leaves open_lists empty and the page empty.  It adds the
\* forced-break penalty to the vertical list, which after open_lists is taken
\* is the page, before it clears the page: when in_output is false the pending
\* page, with the penalty at its end, is handed to the output routine exactly
\* once, as a forced break and with no list open, before it is cleared.  (When
\* flush is reached while an output routine runs, no routine is started.)
FlushHandsPageToOutput ==
    \A busy \in BOOLEAN, env \in OutputEnvs({NoEnv}) :
        LET r == flush([Cur EXCEPT !.in_output = busy], env)
            outs == OutputsOf(r.ev)
        IN  /\ r.out = "Ok"
            /\ r.open_lists = <<>>
            /\ r.page = <<>>
            /\ r.groups = IF open_lists # <<>> THEN <<>> ELSE groups
            /\ busy => outs = {}
            /\ ~busy =>
                /\ Cardinality(outs) = 1
                /\ \A i \in outs :
                     /\ r.ev[i].info = "forced"
                     /\ r.ev[i].pagelen = Len(page) + 1
                     /\ r.ev[i].depth = 0
                     /\ ~r.ev[i].in_output

\* the document has ended: flush handed the page to an output routine that
\* put a box back, and nothing is left on the page or on open_lists
FlushWitness ==
    /\ ret.op = "flush"
    /\ ret.out = "Ok"
    /\ ret.calls = {"do_output", "routine"}
    /\ open_lists = <<>>
    /\ page = <<>>
    /\ ~in_output

\* ----------------------------------------------------------------------- C21
\* the messages among the entries of a journal
MessagesOf(ev) == { i \in DOMAIN ev : ev[i].e = "message" }

\* C21 as stated: whenever the group level of the State is greater than 0
\* when flush is called, flush emits the warning and pops every group: it
\* returns Ok with the group level at 0.
FlushClosesGroups ==
    groups # <<>> =>
        \A env \in OutputEnvs({NoEnv}) :
            LET r == flush(Cur, env)
            IN  /\ r.out = "Ok"
                /\ MessagesOf(r.ev) # {}
                /\ r.groups = <<>>

\* what flush does: the warning and the pops depend on a list being open, not
\* on the group level
FlushClosesGroupsOfOpenLists ==
    \A env \in OutputEnvs({NoEnv}) :
        LET r == flush(Cur, env)
        IN  /\ r.out = "Ok"
            /\ (MessagesOf(r.ev) # {}) = (open_lists # <<>>)
            /\ r.groups = IF open_lists # <<>> THEN <<>> ELSE groups

\* ----------------------------------------------------------------------- C22
\* the whatsit node of the family of mode m
WhatsitOf(m) ==
    CASE is_vertical(m) -> Node("VWhatsit", 0)
      [] is_horizontal(m) -> Node("HWhatsit", 0)
      [] is_math(m) -> Node("MWhatsit", 0)

\* C22: in every mode, when `read` yields a whatsit function do_whatsit
\* returns Ok, without reaching the "called outside of ... mode" trap of
\* add_node_h or add_node_m, and appends exactly one whatsit node of the
\* family of the current mode to the innermost list; with no list open the
\* node goes to the page (which, if that fills it, leaves with the node at its
\* end through the output routine).  When `read` yields nothing, nothing
\* changes.
WhatsitGoesToCurrentList ==
    \A env \in OutputEnvs({NoEnv}) :
        LET m == mode(open_lists)
            r == do_whatsit(Cur, "some", env)
            outs == OutputsOf(r.ev)
        IN  /\ m \in TeXMode
            /\ do_whatsit(Cur, "none", env) = Cur
            /\ r.out = "Ok"
            /\ \A i \in DOMAIN r.ev : r.ev[i].e # "panic"
            /\ open_lists # <<>> =>
                    /\ r.open_lists = AppendTop(open_lists, WhatsitOf(m))
                    /\ r.page = page
            /\ open_lists = <<>> =>
                    /\ r.open_lists = <<>>
                    /\ outs = {} => r.page = Append(page, WhatsitOf(m))
                    /\ \A i \in outs : r.ev[i].pagelen = Len(page) + 1

\* a whatsit has been added in math mode, to the math list on top
WhatsitWitness ==
    /\ ret.op = "do_whatsit"
    /\ ret.out = "Ok"
    /\ is_math(mode(open_lists))
    /\ Last(open_lists).children = <<Node("MWhatsit", 0)>>

\* ----------------------------------------------------------------------- C23
\* the State::pop calls among the entries of a journal
PopsOf(ev) == { i \in DOMAIN ev : ev[i].e = "state.pop" }

\* the frame open_align pushes
AlignFrame(between) ==
    IF between = "Vertical" THEN Frame("Vertical", "HAlign", FALSE)
    ELSE Frame("Horizontal", "VAlign", FALSE)

\* open_align pushes exactly one Align group and exactly one frame, of the
\* kind `between` asks for, and touches nothing else
OpenAlignPushes(between) ==
    LET o == open_align(Cur, between)
    IN  /\ o.out = "Ok"
        /\ o.groups = Append(groups, "Align")
        /\ o.open_lists = Append(open_lists, AlignFrame(between))
        /\ o.page = page

\* close_align on an align frame pops exactly one group, and pops it while
\* the frame is already off the stack and nothing has been added to the page
CloseAlignPopsFirst ==
    (open_lists # <<>> /\ Last(open_lists).tp \in {"HAlign", "VAlign"}) =>
        \A env \in OutputEnvs({NoEnv}) :
            LET r == close_align(Cur, env)
            IN  /\ Cardinality(PopsOf(r.ev)) = 1
                /\ \A i \in PopsOf(r.ev) :
                     /\ r.ev[i].depth = Len(open_lists) - 1
                     /\ r.ev[i].pagelen = Len(page)
                /\ r.groups = IF groups = <<>> THEN <<>> ELSE Front(groups)

\* the alignment opened by open_align(between) is closed at once
AlignRoundTripOf(between) == close_align(open_align(Cur, between), NoEnv)

\* C23 as stated: open_align pushes one Align group and one frame, close_align
\* pops one group before any child is appended, and after a matched open_align
\* / close_align pair with no nodes added the group depth, open_lists and the
\* enclosing list are what they were before.
AlignRoundTrip ==
    /\ CloseAlignPopsFirst
    /\ \A between \in {"Horizontal", "Vertical"} :
        LET r == AlignRoundTripOf(between)
        IN  /\ OpenAlignPushes(between)
            /\ r.out = "Ok"
            /\ r.groups = groups
            /\ r.open_lists = open_lists
            /\ r.page = page

\* C23, amended: as above, except that the pair leaves a trace when an \halign
\* (between = Vertical) is opened directly above a math frame: close_align
\* then appends one atom with an empty VCenter nucleus to that math frame.
\* In every other case the enclosing list is what it was before.
AlignRoundTripOutsideMath ==
    /\ CloseAlignPopsFirst
    /\ \A between \in {"Horizontal", "Vertical"} :
        LET r == AlignRoundTripOf(between)
            in_math == open_lists # <<>> /\ Last(open_lists).fam = "Math"
        IN  /\ OpenAlignPushes(between)
            /\ r.out = "Ok"
            /\ r.groups = groups
            /\ r.open_lists =
                    IF between = "Vertical" /\ in_math
                    THEN AppendTop(open_lists, VCenterAtom(<<>>))
                    ELSE open_lists
            /\ r.page = page

\* an \halign opened in math mode has been closed with no node added: its
\* group is popped and the math list holds an atom with an empty VCenter
\* nucleus
AlignRoundTripWitness ==
    /\ ret.op = "close_align"
    /\ ret.out = "Ok"
    /\ open_lists # <<>>
    /\ Last(open_lists).fam = "Math"
    /\ Last(open_lists).children = <<VCenterAtom(<<>>)>>
    /\ Len(groups) = 1

\* ----------------------------------------------------------------------- C24
\* the calls of a journal, in order: what was called and on what
CallsInOrder(ev) == [i \in DOMAIN ev |-> <<ev[i].e, ev[i].info>>]

\* C24: close_paragraph on a Paragraph frame with no children pops that frame,
\* drops \parshape, resets \hangafter and \hangindent and does nothing else:
\* whatever \parskip and the splitter would give, nothing is added to the
\* enclosing vertical list or to the page, no output routine starts, and
\* prevgraf is left as it was.
EmptyParagraphAddsNothing ==
    (mode(open_lists) = Horizontal /\ Last(open_lists).children = <<>>) =>
        \A env \in OutputEnvs(Envs(FALSE, TRUE, FALSE)) :
            LET r == close_paragraph(Cur, env)
            IN  /\ r.out = "Ok"
                /\ CallsInOrder(r.ev) =
                        << <<"state.take_parshape", "-">>,
                           <<"state.set", "hangafter">>,
                           <<"state.set", "hangindent">> >>
                /\ [r EXCEPT !.ev = <<>>] = [Cur EXCEPT !.open_lists = Front(open_lists)]

\* an empty paragraph has been closed after \prevgraf was set in it: prevgraf
\* is kept and nothing reached the page
EmptyParagraphWitness ==
    /\ ret.op = "close_paragraph"
    /\ ret.out = "Ok"
    /\ ret.calls = {}
    /\ open_lists = <<>>
    /\ page = <<>>
    /\ prevgraf = 1

\* ----------------------------------------------------------------------- C25
\* what a non-empty paragraph is to add to the enclosing vertical list: the
\* \parskip glue if \parskip is not 0, then the splitter's items in order
ParagraphContribution(env) ==
    (IF env.parskip # 0 THEN <<Node("VSkip", env.parskip)>> ELSE <<>>)
        \o [i \in DOMAIN env.lines |-> ParLineNode(env.lines[i])]

\* ls ends with suffix
IsSuffix(suffix, ls) ==
    /\ Len(suffix) <= Len(ls)
    /\ suffix = SubSeq(ls, Len(ls) - Len(suffix) + 1, Len(ls))

RECURSIVE SumPagelen(_, _)
SumPagelen(ev, idx) ==
    IF idx = {} THEN 0
    ELSE LET i == CHOOSE j \in idx : TRUE
         IN  ev[i].pagelen + SumPagelen(ev, idx \ {i})

\* C25: close_paragraph on a non-empty paragraph appends to the enclosing
\* vertical list, in this order, one VSkip(parskip) if and only if \parskip is
\* not 0, then every item of the splitter in the splitter's order, an Adjust
\* as the vertical node itself and a Line as a box; nothing is dropped,
\* duplicated or reordered.  (When the list is the page and it fills
\* meanwhile, what was appended so far leaves with that page: what is left on
\* the page is the end of the contribution, and the pages handed to the output
\* routine and the page left hold together what was there plus the
\* contribution.)
ParagraphAppendedInOrder ==
    (mode(open_lists) = Horizontal /\ Last(open_lists).children # <<>>) =>
        \A env \in OutputEnvs(Envs(FALSE, TRUE, FALSE)) :
            LET r == close_paragraph(Cur, env)
                below == Front(open_lists)
                added == ParagraphContribution(env)
                outs == OutputsOf(r.ev)
            IN  /\ r.out = "Ok"
                /\ below # <<>> =>
                        /\ r.open_lists = [below EXCEPT ![Len(below)].children = @ \o added]
                        /\ r.page = page
                /\ below = <<>> =>
                        /\ r.open_lists = <<>>
                        /\ outs = {} => r.page = page \o added
                        /\ outs # {} => IsSuffix(r.page, added)
                        /\ SumPagelen(r.ev, outs) + Len(r.page) = Len(page) + Len(added)

\* a paragraph has been closed at the top level with \parskip not 0 and a
\* splitter that returns an Adjust and a Line: the glue, the adjust node and
\* the line box are on the page in this order
ParagraphAppendedWitness ==
    /\ ret.op = "close_paragraph"
    /\ ret.out = "Ok"
    /\ open_lists = <<>>
    /\ page = <<Node("VSkip", 1), Node("VAdjust", 0), Node("VBox", 1)>>

\* ----------------------------------------------------------------------- C26
\* the calls of the character continuation among the entries of a journal
ContinuationsOf(ev) == { i \in DOMAIN ev : ev[i].e = "f" }

\* in math mode: on a begin-group token exactly one Math group and exactly one
\* Target frame are pushed and the character continuation is not called; on a
\* math character the continuation is called exactly once and nothing is
\* pushed
ReadsCharOrOpensGroup ==
    is_math(mode(open_lists)) =>
        LET g == read_char_or_math_group(Cur, "begingroup")
            c == read_char_or_math_group(Cur, "char")
        IN  /\ g.out = "Ok"
            /\ ContinuationsOf(g.ev) = {}
            /\ [g EXCEPT !.ev = <<>>] =
                    [Cur EXCEPT !.groups = Append(groups, "Math"),
                                !.open_lists =
                                    Append(open_lists, Frame("Math", "Target", FALSE))]
            /\ c.out = "Ok"
            /\ Cardinality(ContinuationsOf(c.ev)) = 1
            /\ [c EXCEPT !.ev = <<>>] = Cur

\* the frames below frame i are what they were
BelowUnchanged(i) ==
    /\ Len(open_lists') >= i
    /\ SubSeq(open_lists', 1, i - 1) = SubSeq(open_lists, 1, i - 1)

\* the sub-list i is popped by the end of its group: the frame below is the
\* top again and has received the sub-list, the frames further down are what
\* they were
SubListResumed(i) ==
    /\ i = Len(open_lists)
    /\ i > 1
    /\ ret'.op = "close_math_group"
    /\ groups # <<>> /\ Last(groups) = "Math" /\ groups' = Front(groups)
    /\ open_lists' =
            AppendTop(SubSeq(open_lists, 1, i - 1), Node("MAtomList", 0))

RequeuesOf(ev) == { i \in DOMAIN ev : ev[i].e = "requeue" }

\* C27: in math mode, do_mathchar with code 0x8000 and a character token
\* requeues that character as an active character and appends no node; in
\* every other case (another code, or no character token) it requeues nothing
\* and appends exactly one atom, made from the code, to the top math frame.
\* Nothing else changes.
MathcharRequeuesOrAppends ==
    is_math(mode(open_lists)) =>
        \A in \in MathcharInputs :
            LET code == in[1]
                token == in[2]
                r == do_mathchar(Cur, code, token)
                active == code = ActiveMathCode /\ token.kind = "character"
            IN  /\ r.out = "Ok"
                /\ active =>
                        /\ Cardinality(RequeuesOf(r.ev)) = 1
                        /\ [r EXCEPT !.ev = <<>>] =
                                [Cur EXCEPT !.mouth = <<Tok("active", token.name, "-")>> \o @]
                /\ ~active =>
                        /\ RequeuesOf(r.ev) = {}
                        /\ [r EXCEPT !.ev = <<>>] =
                                [Cur EXCEPT !.open_lists = AppendTop(@, MathAtom(code))]

\* a mathchar with code 0x8000 and a character has been dispatched in math
\* mode: the character waits in the mouth as an active character and the math
\* list is empty
MathcharRequeuedWitness ==
    /\ ret.op = "do_mathchar"
    /\ ret.calls = {"requeue"}
    /\ mouth = <<Tok("active", "a", "-")>>
    /\ is_math(mode(open_lists))
    /\ Last(open_lists).children = <<>>

\* ----------------------------------------------------------------------- C28
\* token i of the input is skipped by read_box(skip_eq): every token before
\* it is skipped, and it is a space or the first '=' when skip_eq is true
RECURSIVE Skipped(_, _)
Skipped(i, skip_eq) ==
    /\ i \in DOMAIN mouth
    /\ \A j \in 1..(i - 1) : Skipped(j, skip_eq)
    /\ \/ mouth[i].kind = "space"
       \/ mouth[i] = EqTok /\ skip_eq /\ \A j \in 1..(i - 1) : mouth[j] # EqTok

\* the number of tokens read_box(skip_eq) skips
SkippedCount(skip_eq) == Cardinality({ i \in DOMAIN mouth : Skipped(i, skip_eq) })

\* the calls of a journal named e
CallsOf(ev, e) == { i \in DOMAIN ev : ev[i].e = e }

\* C28: read_box skips any number of space tokens and at most one '=', that
\* one only when skip_eq is true, and if the next token is a box primitive it
\* calls it once and returns its result, with the input after the box
\* primitive left to it.  If the first token that is not skipped is not a box
\* primitive (a second '=', or an '=' when skip_eq is false, included) or the
\* input ends, it reports "A <box> was supposed to be here" once and calls no
\* box primitive; when the error is recovered it returns no box and no
\* BoxInfo, and do_box called with that result changes no list, pushes no
\* frame and opens no group; when it is not recovered the error is returned.
ReadBoxSkipsToBox ==
    \A skip_eq \in BOOLEAN, b \in BoxResults, env \in Envs(TRUE, FALSE, FALSE) :
        LET rb == read_box(Cur, skip_eq, b, env)
            s == rb[1]
            n == SkippedCount(skip_eq) + 1
            found == n \in DOMAIN mouth /\ mouth[n].kind = "box"
            d == do_box(s, rb[2], env)
        IN  /\ s.mouth = SubSeq(mouth, n + 1, Len(mouth))
            /\ [s EXCEPT !.mouth = mouth, !.ev = <<>>, !.out = "Ok"] = Cur
            /\ found =>
                    /\ rb[2] = b
                    /\ s.out = "Ok"
                    /\ Cardinality(CallsOf(s.ev, "b")) = 1
                    /\ CallsOf(s.ev, "general_error") = {}
            /\ ~found =>
                    /\ CallsOf(s.ev, "b") = {}
                    /\ Cardinality(CallsOf(s.ev, "general_error")) = 1
                    /\ \A i \in CallsOf(s.ev, "general_error") :
                            s.ev[i].info = "A <box> was supposed to be here"
                    /\ env.recover =>
                            /\ s.out = "Ok"
                            /\ rb[2] = "none"
                            /\ d = s
                    /\ ~env.recover => s.out = "Err" /\ rb[2] = "err"

\* a command met a token that is no box primitive where the box was to be:
\* the error was reported and recovered, the box primitive that follows is
\* still in the input and no list was opened
ReadBoxWitness ==
    /\ ret.op = "read_box"
    /\ ret.out = "Ok"
    /\ ret.calls = {"general_error"}
    /\ mouth = <<BoxTok>>
    /\ open_lists = <<>>
    /\ page = <<>>
    /\ groups = <<>>

\* ----------------------------------------------------------------------- C29
\* C29: close_align called when the top of open_lists is not an align frame
\* (no list open, or a paragraph, a box frame or a math frame on top) ends in
\* the unreachable!() of an internal error.  It pops no State group, and the
\* children of the frame on top go nowhere: the page and every frame below
\* are what they were.
CloseAlignOutsideAlignTraps ==
    (open_lists = <<>> \/ Last(open_lists).tp \notin {"HAlign", "VAlign"}) =>
        \A env \in OutputEnvs({NoEnv}) :
            LET r == close_align(Cur, env)
            IN  /\ r.out = "Panic"
                /\ PopsOf(r.ev) = {}
                /\ r.groups = groups
                /\ r.page = page
                /\ r.open_lists = IF open_lists = <<>> THEN <<>> ELSE Front(open_lists)

\* close_align has been called with a list that is no alignment on top of a
\* vertical box: the call trapped and the box below received nothing
CloseAlignTrapWitness ==
    /\ ret.op = "close_align"
    /\ ret.out = "Panic"
    /\ open_lists = <<Frame("Vertical", "Box", FALSE)>>
    /\ page = <<>>

\* ----------------------------------------------------------------------- C30
\* C30: when maybe_switch_mode rejects a command (the scope and the mode are
\* one of the not_allowed_in_mode cases) and the error is recovered, the
\* command is abandoned with no effect on the Stomach: maybe_switch_mode
\* returns false, do_unexpandable returns Ok without running the body
\* (whatever the body would do), the token is not requeued, no paragraph is
\* opened or closed, and open_lists, the page, the afterassignment slot and
\* every other field are what they were.
RejectedCommandAbandoned ==
    LET m == mode(open_lists) IN
    \A tok \in { tk \in NextTokens(UnexpandableTokens) : Decision(tk.scope, m) = "error" },
       body \in {"nop", "node", "err"}, env \in Envs(FALSE, FALSE, TRUE) :
            LET sw == maybe_switch_mode(Taken, tok.scope, tok, env)
                r == do_unexpandable(Taken, tok.scope, tok, body, env)
            IN  /\ sw.out = "Ok" /\ ~sw.val
                /\ r.out = "Ok"
                /\ CallsInOrder(r.ev) = << <<"not_allowed_in_mode", m>> >>
                /\ [r EXCEPT !.ev = <<>>, !.val = FALSE] = Taken

\* a command was rejected, and the error recovered, while a token waited in
\* the afterassignment slot: the slot still holds it
RejectedCommandWitness ==
    /\ ret.op = "do_unexpandable"
    /\ ret.out = "Ok"
    /\ ret.calls = {"not_allowed_in_mode"}
    /\ afterassignment # NoTok
    /\ mouth = <<>>


\* ----------------------------------------------------------------------- C31
\* the frames of open_lists that are paragraphs
ParagraphFrames ==
    { i \in DOMAIN open_lists :
        open_lists[i].fam = "Horizontal" /\ open_lists[i].tp = "Paragraph" }

\* the commands the main loop may read next whose scope is SwitchesToVertical
VerticalCommands ==
    { tk \in NextTokens(UnexpandableTokens) : tk.scope = "SwitchesToVertical" }

\* C31: in every state reached through command dispatch, each paragraph frame
\* of open_lists is the bottom frame of the stack or lies directly on a
\* vertical frame.  Hence, when a SwitchesToVertical command is read in
\* horizontal mode, maybe_switch_mode returns Ok and false with the paragraph
\* frame popped, with the mode Vertical or InternalVertical and with the
\* command first in the mouth; and maybe_switch_mode, called again with that
\* command in the state so reached, returns true and changes nothing.
ParagraphLiesOnVerticalList ==
    /\ \A i \in ParagraphFrames : i = 1 \/ open_lists[i - 1].fam = "Vertical"
    /\ mode(open_lists) = Horizontal =>
         \A tok \in VerticalCommands, env \in OutputEnvs(Envs(FALSE, TRUE, FALSE)) :
            LET r == maybe_switch_mode(Taken, tok.scope, tok, env)
                read == [r EXCEPT !.mouth = Tail(@), !.ev = <<>>]
                again == maybe_switch_mode(read, tok.scope, tok, env)
            IN  /\ r.out = "Ok" /\ ~r.val
                /\ Len(r.open_lists) = Len(open_lists) - 1
                /\ mode(r.open_lists) \in {Vertical, InternalVertical}
                /\ r.mouth = <<tok>> \o Taken.mouth
                /\ again = [read EXCEPT !.val = TRUE]

\* a SwitchesToVertical command was read in a paragraph inside a vertical box:
\* the paragraph is closed, its line lies in the box, which is on top again,
\* and the command waits in the mouth
ParagraphClosedWitness ==
    /\ ret.op = "do_unexpandable"
    /\ ret.out = "Ok" /\ ~ret.val
    /\ "requeue" \in ret.calls
    /\ mouth = <<Tok("unexpandable", "vskip", "SwitchesToVertical")>>
    /\ Len(open_lists) = 1
    /\ open_lists[1].fam = "Vertical"
    /\ open_lists[1].children # <<>>

====
